---- MODULE Spec2Model ----
(***************************************************************************)
(* Provider access layer of nexus-launcher: BaseProvider (cache, health    *)
(* check, pagination, error wrapping), WordPressProvider (the five query   *)
(* operations over fetch) and ProviderService (the consumer-facing         *)
(* wrapper).  Every await of the code is a step boundary: a call runs      *)
(* synchronously up to its fetch, resumes when the fetch settles, and      *)
(* resumes again when the response body has been parsed.  The content      *)
(* transformers (download links, system requirements, media gallery,       *)
(* sanitizeHtml, embedded author/media/terms), the provider configuration  *)
(* and the loading state of ProviderContextProvider each have a            *)
(* specification of their own over the same variables.                     *)
(***************************************************************************)
EXTENDS Integers, Sequences, FiniteSets, TLC

\* ------------------------------------------------------------------ bounds

\* Operations started through withLoading in one behaviour.
MaxLoads == 3

\* Calls started in one behaviour.
MaxOps == 2
\* Clock advances in one behaviour.
MaxTicks == 2
\* ------------------------------------------------------- program constants

\* BaseProvider.cacheExpiry, in milliseconds.
cacheExpiry == 5 * 60 * 1000

\* PROVIDER_SETTINGS.maxRetries (declared, read by no query operation).
maxRetries == 3

\* WordPressProvider.postsPerPage, as constructed from OYUNINDIR_CONFIG.
postsPerPage == 30

\* BaseProvider.name of WordPressProvider, as handleError prints it.
ProviderName == "WordPress Provider"

\* ------------------------------------------------------------------ values

\* JavaScript values the operations produce.  t is the kind, items the
\* elements of an array (or the one object of kind "object").
Undefined == [t |-> "undefined", items |-> <<>>]
Null == [t |-> "null", items |-> <<>>]
Array(s) == [t |-> "array", items |-> s]
Object(o) == [t |-> "object", items |-> <<o>>]
Bool(b) == [t |-> IF b THEN "true" ELSE "false", items |-> <<>>]

\* JavaScript truthiness, as used by `if (cached)` and `if (!game)`:
\* undefined, null and false are falsy; every array (the empty one too) and
\* every object is truthy.
Truthy(v) == v.t \notin {"undefined", "null", "false"}

\* An outcome of a call: a returned value or a raised Error with its message.
\* A message is the sequence of its segments; handleError puts the provider
\* prefix and the context in front of the message it wraps.
Returned(v) == [kind |-> "value", val |-> v, msg |-> <<>>]
Raised(m) == [kind |-> "error", val |-> Undefined, msg |-> m]
NoOutcome == [kind |-> "none", val |-> Undefined, msg |-> <<>>]

\* ------------------------------------------------------------ call inputs

Ops == {"getGames", "getGameById", "searchGames", "getCategories",
        "getGamesByCategory", "getGamesPaginated", "healthCheck"}

Input(op, svc, page, limit, id, query, categoryId) ==
    [op |-> op, svc |-> svc, page |-> page, limit |-> limit, id |-> id,
     query |-> query, categoryId |-> categoryId]

\* A search query is the sequence of its characters.
Queries == {<<>>, <<" ">>, <<"a">>}

\* The calls a behaviour may make, grouped by the cache keys they share: one
\* behaviour draws its calls from one workload.  svc = TRUE is a call through
\* ProviderService, svc = FALSE a call on the WordPressProvider itself.
Workloads ==
    [listing |-> {Input("getGames", FALSE, 1, 1, 0, <<>>, 0),
                  Input("getGamesPaginated", FALSE, 1, 1, 0, <<>>, 0),
                  Input("healthCheck", FALSE, 0, 0, 0, <<>>, 0)},
     paging |-> {Input("getGames", FALSE, 2, 2, 0, <<>>, 0),
                 Input("getGamesPaginated", FALSE, 2, 2, 0, <<>>, 0)},
     single |-> {Input("getGameById", s, 0, 0, 7, <<>>, 0) : s \in BOOLEAN},
     search |-> {Input("searchGames", FALSE, 0, 0, 0, q, 0) : q \in Queries},
     taxonomy |-> {Input("getCategories", FALSE, 0, 0, 0, <<>>, 0),
                   Input("getGamesByCategory", FALSE, 1, 1, 0, <<>>, 5)},
     oversized |-> {Input("getGamesPaginated", FALSE, 1, postsPerPage + 1,
                          0, <<>>, 0),
                    Input("getGamesPaginated", FALSE, 2, postsPerPage + 1,
                          0, <<>>, 0),
                    Input("getGamesPaginated", FALSE, 1, 2 * postsPerPage,
                          0, <<>>, 0)}]

Inputs == UNION {Workloads[w] : w \in DOMAIN Workloads}

\* ----------------------------------------------------------- pure helpers

IsSpace(ch) == ch = " "

RECURSIVE TrimStart(_)
TrimStart(q) ==
    IF q # <<>> /\ IsSpace(Head(q)) THEN TrimStart(Tail(q)) ELSE q

RECURSIVE TrimEnd(_)
TrimEnd(q) ==
    IF q # <<>> /\ IsSpace(q[Len(q)]) THEN TrimEnd(SubSeq(q, 1, Len(q) - 1))
    ELSE q

\* Mutant of Trim: the query is tested as it is (`!query`).
TrimNone(q) == q

\* String.prototype.trim on a query.
Trim(q) == TrimEnd(TrimStart(q))

\* The characters of a query as one string (template-literal interpolation).
RECURSIVE QueryString(_)
QueryString(q) == IF q = <<>> THEN "" ELSE Head(q) \o QueryString(Tail(q))

\* healthCheck and getGamesPaginated run getGames inside; every other
\* operation runs itself.  The result is the provider operation that looks
\* the cache up and fetches.
InnerInput(in) ==
    CASE in.op = "healthCheck" -> Input("getGames", FALSE, 1, 1, 0, <<>>, 0)
      [] in.op = "getGamesPaginated" ->
            Input("getGames", FALSE, in.page, in.limit, 0, <<>>, 0)
      [] OTHER -> [in EXCEPT !.svc = FALSE]

\* The cache key of a provider operation.
CacheKey(in) ==
    CASE in.op = "getGames" ->
            "games-" \o ToString(in.page) \o "-" \o ToString(in.limit)
      [] in.op = "getGameById" -> "game-" \o ToString(in.id)
      [] in.op = "searchGames" -> "search-" \o QueryString(in.query)
      [] in.op = "getCategories" -> "categories"
      [] in.op = "getGamesByCategory" ->
            "category-" \o ToString(in.categoryId) \o "-" \o ToString(in.page)
                \o "-" \o ToString(in.limit)

Keys == {CacheKey(InnerInput(in)) : in \in Inputs}

\* The context a provider operation gives handleError when response.ok is
\* false.
FailContext(in) ==
    CASE in.op = "getGames" -> "Failed to fetch games"
      [] in.op = "getGameById" -> "Failed to fetch game"
      [] in.op = "searchGames" -> "Failed to search games"
      [] in.op = "getCategories" -> "Failed to fetch categories"
      [] in.op = "getGamesByCategory" -> "Failed to fetch games by category"

\* The context a provider operation gives handleError in its catch block.
CatchContext(in) ==
    CASE in.op = "getGames" -> "Error fetching games"
      [] in.op = "getGameById" ->
            "Error fetching game with id " \o ToString(in.id)
      [] in.op = "searchGames" ->
            "Error searching for games: " \o QueryString(in.query)
      [] in.op = "getCategories" -> "Error fetching categories"
      [] in.op = "getGamesByCategory" ->
            "Error fetching games for category " \o ToString(in.categoryId)

\* BaseProvider.handleError: `[${this.name}] ${context}: ${message}`, thrown.
HandleError(message, context) ==
    Raised(<<"[" \o ProviderName \o "]", context>> \o message)

\* The message of `new Error(`HTTP ${response.status}: ${response.statusText}`)`.
HttpMessage(status) == <<"HTTP " \o ToString(status)>>

\* The message fetch rejects with when the network fails.
NetworkMessage == <<"fetch failed">>

\* The message of the TypeError `new URL` throws on a base that is no URL.
InvalidUrlMessage == <<"Invalid URL">>

\* The message response.json() rejects with on a body that is not JSON.
JsonMessage == <<"Unexpected token in JSON">>

\* ------------------------------------------------------ upstream payloads

\* A post of the upstream response.  content: the post carries
\* content.rendered, which transformPostToGame reads.
Post(id, title) == [id |-> id, title |-> title, content |-> TRUE]

\* A post that lacks content.rendered.
PostWithoutContent(id, title) ==
    [id |-> id, title |-> title, content |-> FALSE]

\* Mutant of PerPage: the limit is passed on as it is.
PerPageUnclamped(in) == in.limit

\* per_page of the request of getGames and getGamesByCategory:
\* Math.min(limit, this.postsPerPage)
PerPage(in) == IF in.limit < postsPerPage THEN in.limit ELSE postsPerPage

\* The numbers of posts the upstream may hold when a page is asked for with
\* a limit above the page size.
UpstreamTotals ==
    {0, postsPerPage - 1, postsPerPage, postsPerPage + 1,
     2 * postsPerPage + 2}

\* The posts on the shelf of the upstream from place `from` to place `to`.
Shelf(from, to) == [i \in 1..(to - from + 1) |-> Post(from + i - 1, "p")]

\* The page the WordPress REST API serves for ?page=&per_page= out of
\* `total` posts: at most per_page posts.
UpstreamPage(total, page, perPage) ==
    IF total <= (page - 1) * perPage THEN <<>>
    ELSE IF total < page * perPage
    THEN Shelf((page - 1) * perPage + 1, total)
    ELSE Shelf((page - 1) * perPage + 1, page * perPage)

\* The response bodies the upstream may send for a provider operation: a
\* list of posts, one post, or a list of taxonomy terms; for a limit above
\* the page size, the page of the request for each number of posts the
\* upstream may hold.
Bodies(in) ==
    CASE in.op = "getGameById" -> {<<Post(in.id, "a")>>, <<Post(in.id, "b")>>}
      [] in.op = "getCategories" -> {<<>>, <<Post(5, "pc")>>}
      [] in.limit > postsPerPage ->
            {UpstreamPage(total, in.page, PerPage(in)) :
                total \in UpstreamTotals}
      [] OTHER -> {<<>>, <<Post(2, "b"), Post(1, "a")>>,
                   <<Post(2, "b"), PostWithoutContent(3, "c")>>}

\* The HTTP statuses the upstream may answer with.
Statuses == {200, 404, 500}

\* Response.ok
Ok(status) == status >= 200 /\ status <= 299

\* The message of the TypeError that reading `post.content.rendered` throws
\* when post.content is undefined.
TypeErrorMessage == <<"Cannot read properties of undefined">>

\* WordPressProvider.transformPostToGame, as far as the access layer sees it:
\* one Game per post, carrying the post's id and title; the promise rejects
\* when the post has no content.rendered to read.
TransformPostToGame(post) ==
    [threw |-> ~post.content, game |-> [id |-> post.id, title |-> post.title]]

\* The games of the posts whose transformation did not throw, in order.
RECURSIVE Fulfilled(_)
Fulfilled(posts) ==
    IF posts = <<>> THEN <<>>
    ELSE LET r == TransformPostToGame(Head(posts)) IN
         (IF r.threw THEN <<>> ELSE <<r.game>>) \o Fulfilled(Tail(posts))

\* Mutant of MapPosts: the posts whose transformation failed are dropped and
\* the rest are returned (Promise.allSettled, filtered).
MapPostsDropFailed(posts) ==
    [rejected |-> FALSE, games |-> Fulfilled(posts)]

\* await Promise.all(posts.map(transformPostToGame)), and terms.map(...) of
\* getCategories: rejected as soon as one transformation rejects.
MapPosts(posts) ==
    [rejected |-> \E i \in 1..Len(posts) : TransformPostToGame(posts[i]).threw,
     games |-> Fulfilled(posts)]

\* What a provider operation makes of a parsed body: the value it stores and
\* returns, or the error of its catch block when a transformation threw.
BuildValue(in, body) ==
    LET m == MapPosts(body) IN
    IF m.rejected THEN HandleError(TypeErrorMessage, CatchContext(in))
    ELSE IF in.op = "getGameById" THEN Returned(Object(m.games[1]))
    ELSE Returned(Array(m.games))

\* ------------------------------------------------------------------ strings

\* A string is a TLA+ string; its i-th character is the one-character string
\* At(s, i).  Characters outside ASCII are written with a stand-in.
At(s, i) == IF i >= 1 /\ i <= Len(s) THEN SubSeq(s, i, i) ELSE ""

\* String.prototype.substring(from), 1-based.
From(s, i) == IF i > Len(s) THEN "" ELSE SubSeq(s, i, Len(s))

UpperCase == "ABCDEFGHIJKLMNOPQRSTUVWXYZ"
LowerCase == "abcdefghijklmnopqrstuvwxyz"
Digits == {"0", "1", "2", "3", "4", "5", "6", "7", "8", "9"}
Letters ==
    {At(UpperCase, i) : i \in 1..26} \cup {At(LowerCase, i) : i \in 1..26}

ToLowerMap == [c \in {At(UpperCase, i) : i \in 1..26} |->
                 At(LowerCase, CHOOSE i \in 1..26 : At(UpperCase, i) = c)]
ToUpperMap == [c \in {At(LowerCase, i) : i \in 1..26} |->
                 At(UpperCase, CHOOSE i \in 1..26 : At(LowerCase, i) = c)]

Lower(ch) == IF ch \in DOMAIN ToLowerMap THEN ToLowerMap[ch] ELSE ch
Upper(ch) == IF ch \in DOMAIN ToUpperMap THEN ToUpperMap[ch] ELSE ch

\* The least and the greatest element of a non-empty set of integers.
Least(S) == CHOOSE n \in S : \A m \in S : n <= m
Greatest(S) == CHOOSE n \in S : \A m \in S : n >= m

\* a.toLowerCase() === b.toLowerCase()
SameIgnoringCase(a, b) ==
    /\ Len(a) = Len(b)
    /\ \A i \in 1..Len(a) : Lower(At(a, i)) = Lower(At(b, i))

\* String.prototype.includes
Includes(s, sub) ==
    \E i \in 1..(Len(s) - Len(sub) + 1) : SubSeq(s, i, i + Len(sub) - 1) = sub

\* s.toLowerCase().includes(sub), sub in lower case.
LowerIncludes(s, sub) ==
    \E i \in 1..(Len(s) - Len(sub) + 1) :
        SameIgnoringCase(SubSeq(s, i, i + Len(sub) - 1), sub)

\* The whitespace of \s and of String.prototype.trim.
Whitespace == {" ", "\n", "\t", "\r"}

\* Mutant of StrTrim: at most one whitespace character is removed from
\* each end.
StrTrimOne(s) ==
    SubSeq(s, IF At(s, 1) \in Whitespace THEN 2 ELSE 1,
              IF At(s, Len(s)) \in Whitespace THEN Len(s) - 1 ELSE Len(s))

\* String.prototype.trim on a string.
StrTrim(s) ==
    LET inked == {i \in 1..Len(s) : At(s, i) \notin Whitespace} IN
    IF inked = {} THEN "" ELSE SubSeq(s, Least(inked), Greatest(inked))

\* ------------------------------------------------------ regular expressions

\* A regular expression is a tree of nodes:
\*   Lit(s)        the characters of s, in order
\*   Chr(cs)       one character of the set cs; NotChr(cs) one outside it
\*   Cat(xs)       the nodes of xs, one after the other
\*   Alt(xs)       the first node of xs that lets the match go on
\*   Rep(x, min, max, greedy)   x repeated; max = -1 is no upper limit
\*   Grp(n, x)     capture group n around x
Lit(s) == [k |-> "lit", s |-> s]
Chr(cs) == [k |-> "chr", cs |-> cs, neg |-> FALSE]
NotChr(cs) == [k |-> "chr", cs |-> cs, neg |-> TRUE]
Cat(xs) == [k |-> "cat", xs |-> xs]
Alt(xs) == [k |-> "alt", xs |-> xs]
Rep(x, min, max, greedy) ==
    [k |-> "rep", x |-> x, min |-> min, max |-> max, greedy |-> greedy]
Grp(n, x) == [k |-> "grp", n |-> n, x |-> x]

Star(x) == Rep(x, 0, -1, TRUE)
Plus(x) == Rep(x, 1, -1, TRUE)
Opt(x) == Rep(x, 0, 1, TRUE)
LazyStar(x) == Rep(x, 0, -1, FALSE)
LazyPlus(x) == Rep(x, 1, -1, FALSE)
AnyChar == NotChr({})

\* Capture groups a pattern may number.
GroupIds == {1, 2}
NoCaps == [n \in GroupIds |-> <<0, 0>>]
NoMatch == [ok |-> FALSE, start |-> 0, end |-> 0, caps |-> NoCaps]

\* ch is matched by the class (cs, neg); ci is the i flag.
InClass(ch, cs, neg, ci) ==
    (ch \in cs \/ (ci /\ (Lower(ch) \in cs \/ Upper(ch) \in cs))) # neg

\* s has the characters of lit at pos; ci is the i flag.
LitAt(s, pos, lit, ci) ==
    /\ pos + Len(lit) - 1 <= Len(s)
    /\ LET got == SubSeq(s, pos, pos + Len(lit) - 1) IN
       IF ci THEN SameIgnoringCase(got, lit) ELSE got = lit

\* The first of two attempts that matched.
Either(first, second) == IF first.ok THEN first ELSE second

\* The number of characters from pos on that the class (cs, neg) matches.
RunLength(s, ci, cs, neg, pos) ==
    (CHOOSE j \in pos..(Len(s) + 1) :
        /\ j = Len(s) + 1 \/ ~InClass(At(s, j), cs, neg, ci)
        /\ \A k \in pos..(j - 1) : InClass(At(s, k), cs, neg, ci)) - pos

\* The most repetitions a run of `run` characters allows under the limit max.
Most(max, run) == IF max >= 0 /\ max < run THEN max ELSE run

\* Of the attempts that matched, the one with the most repetitions of a greedy
\* repetition, with the fewest of a lazy one; of the alternatives that matched,
\* the first.
Preferred(good, greedy) ==
    IF good = {} THEN NoMatch
    ELSE (CHOOSE t \in good :
            \A u \in good : IF greedy THEN t.n >= u.n ELSE t.n <= u.n).r

\* The repetition x with one repetition taken.
Again(x) ==
    Rep(x.x, IF x.min > 0 THEN x.min - 1 ELSE 0,
        IF x.max > 0 THEN x.max - 1 ELSE x.max, x.greedy)

\* The backtracking matcher: the nodes of todo are matched one after the other
\* from pos (1-based; end is the position after the match); the first way to
\* match in the order of preference (alternatives left to right, greedy
\* repetitions longest first, lazy ones shortest first) is the result.
RECURSIVE Match(_, _, _, _, _)

\* One more repetition of x (more), or none (~more), and then the rest.
RepStep(s, ci, x, rest, pos, caps, more) ==
    CASE more /\ x.max # 0 ->
           Match(s, ci, <<x.x, Again(x)>> \o rest, pos, caps)
      [] ~more /\ x.min <= 0 -> Match(s, ci, rest, pos, caps)
      [] OTHER -> NoMatch

Match(s, ci, todo, pos, caps) ==
    CASE todo = <<>> ->
           [ok |-> TRUE, start |-> 0, end |-> pos, caps |-> caps]
      [] todo[1].k = "lit" /\ LitAt(s, pos, todo[1].s, ci) ->
           Match(s, ci, Tail(todo), pos + Len(todo[1].s), caps)
      [] /\ todo[1].k = "chr"
         /\ pos <= Len(s)
         /\ InClass(At(s, pos), todo[1].cs, todo[1].neg, ci) ->
           Match(s, ci, Tail(todo), pos + 1, caps)
      [] todo[1].k = "cat" ->
           Match(s, ci, todo[1].xs \o Tail(todo), pos, caps)
      [] todo[1].k = "alt" ->
           Preferred({t \in {[n |-> n,
                              r |-> Match(s, ci, <<todo[1].xs[n]>> \o Tail(todo),
                                          pos, caps)] :
                               n \in 1..Len(todo[1].xs)} :
                         t.r.ok},
                     FALSE)
      [] todo[1].k = "rep" /\ todo[1].x.k = "chr" ->
           Preferred({t \in {[n |-> n,
                              r |-> Match(s, ci, Tail(todo), pos + n, caps)] :
                               n \in todo[1].min..Most(todo[1].max,
                                   RunLength(s, ci, todo[1].x.cs,
                                             todo[1].x.neg, pos))} :
                         t.r.ok},
                     todo[1].greedy)
      [] todo[1].k = "rep" ->
           Either(RepStep(s, ci, todo[1], Tail(todo), pos, caps,
                          todo[1].greedy),
                  RepStep(s, ci, todo[1], Tail(todo), pos, caps,
                          ~todo[1].greedy))
      [] todo[1].k = "grp" ->
           Match(s, ci, <<todo[1].x, [k |-> "end", n |-> todo[1].n,
                                      from |-> pos]>> \o Tail(todo),
                 pos, caps)
      [] todo[1].k = "end" ->
           Match(s, ci, Tail(todo), pos,
                 [caps EXCEPT ![todo[1].n] = <<todo[1].from, pos>>])
      [] OTHER -> NoMatch

\* The leftmost of the matches in good.
Leftmost(good) ==
    IF good = {} THEN NoMatch
    ELSE CHOOSE t \in good : \A u \in good : t.start <= u.start

\* RegExp.prototype.exec from lastIndex `from` (1-based): the leftmost match.
Exec(s, ci, re, from) ==
    Leftmost({t \in {[Match(s, ci, <<re>>, p, NoCaps) EXCEPT !.start = p] :
                        p \in from..(Len(s) + 1)} : t.ok})

\* The text of capture group n of a match m in s ("" when it did not take
\* part).
Group(s, m, n) ==
    IF m.caps[n][1] = 0 THEN "" ELSE SubSeq(s, m.caps[n][1], m.caps[n][2] - 1)

\* The whole text of a match m in s (match[0]).
Matched(s, m) == SubSeq(s, m.start, m.end - 1)

\* String.prototype.replace with a g-flagged pattern and a replacement text.
\* The scan goes through the string from left to right: where the pattern
\* matches (a match is never empty in the patterns of the code), the
\* replacement text is put out and the scan goes on after the match; elsewhere
\* the character is put out.  Scanned(at, out, pos) is the step of the scan at
\* the place `at`: what it puts out and the place it goes on from.
Scanned(at, out, pos) == [at |-> at, out |-> out, pos |-> pos]

ReplacedAt(s, with, a, m) ==
    IF m.ok /\ m.end > a THEN Scanned(a, with, m.end)
    ELSE Scanned(a, At(s, a), a + 1)

\* The step of the scan at every place of s; at the end of s the scan stays.
ScanSteps(s, ci, re, with) ==
    Append([a \in 1..Len(s) |->
                ReplacedAt(s, with, a, Match(s, ci, <<re>>, a, NoCaps))],
           Scanned(Len(s) + 1, "", Len(s) + 1))

\* Two jumps in one.
Twice(jump) == [a \in DOMAIN jump |-> jump[jump[a]]]

\* The places the scan goes through from the places of V on, jump leading
\* from a place to the next one.
RECURSIVE Visited(_, _)
Visited(V, jump) ==
    IF {jump[a] : a \in V} \subseteq V THEN V
    ELSE Visited(V \cup {jump[a] : a \in V}, Twice(jump))

\* What the steps a..b of a sequence of steps put out, one after the other.
RECURSIVE PutOut(_, _, _)
PutOut(steps, a, b) ==
    IF a > b THEN ""
    ELSE IF a = b THEN steps[a].out
         ELSE PutOut(steps, a, (a + b) \div 2)
                \o PutOut(steps, (a + b) \div 2 + 1, b)

\* What the scan puts out: the steps at the places it goes through, in order.
Scan(steps, visited) ==
    PutOut(SelectSeq(steps, LAMBDA step : step.at \in visited),
           1, Cardinality(visited))

ScanFrom(steps, pos) ==
    Scan(steps, Visited({pos}, [a \in 1..Len(steps) |-> steps[a].pos]))

ReplaceAll(s, ci, re, with, pos) == ScanFrom(ScanSteps(s, ci, re, with), pos)

Replace(s, ci, re, with) ==
    IF s = "" THEN "" ELSE ReplaceAll(s, ci, re, with, 1)

\* A sequence of literal replacements <<entity, text>>, applied in order.
RECURSIVE ReplaceEach(_, _)
ReplaceEach(s, table) ==
    IF s = "" \/ table = <<>> THEN s
    ELSE ReplaceEach(Replace(s, FALSE, Lit(Head(table)[1]), Head(table)[2]),
                     Tail(table))

\* ------------------------------------------------------------ download links

\* linkPattern: /<a[^>]+href=["']([^"']+)["'][^>]*>(.*?)<\/a>/gis
LinkPattern ==
    Cat(<<Lit("<a"), Plus(NotChr({">"})), Lit("href="), Chr({"\"", "'"}),
          Grp(1, Plus(NotChr({"\"", "'"}))), Chr({"\"", "'"}),
          Star(NotChr({">"})), Lit(">"), Grp(2, LazyStar(AnyChar)),
          Lit("</a>")>>)

\* /<\/?[a-z][a-z0-9]*(?:\s[^>]*)?>/gi
TagPattern ==
    Cat(<<Lit("<"), Opt(Lit("/")), Chr(Letters), Star(Chr(Letters \cup Digits)),
          Opt(Cat(<<Chr(Whitespace), Star(NotChr({">"}))>>)), Lit(">")>>)

\* /Link\s*(\d+)/i
LinkNumberPattern ==
    Cat(<<Lit("Link"), Star(Chr(Whitespace)), Grp(1, Plus(Chr(Digits)))>>)

\* The entity replacements of extractDownloadLinks, in the order the code
\* applies them: the entities of <, > and & first.
\* (The listing of base-provider.ts shows the patterns of &lt; &gt; &amp; and
\* &quot; with the entity resolved to its character, as in .replace(/</g, '<');
\* the code's comment and its unit test show that the entities are meant.)
LabelEntities ==
    <<(<<"&lt;", "<">>), (<<"&gt;", ">">>), (<<"&amp;", "&">>),
      (<<"&#8211;", "-">>), (<<"&#8230;", "...">>), (<<"&quot;", "\"">>),
      (<<"&nbsp;", " ">>)>>

DecodeLabelEntities(s) == ReplaceEach(s, LabelEntities)

\* labelText.replace(TagPattern, '')
StripTags(s) == Replace(s, TRUE, TagPattern, "")

\* Mutant of LabelOf: the tags are removed before the entities are decoded.
LabelOfStripFirst(inner) == StrTrim(DecodeLabelEntities(StripTags(inner)))

\* The label of an anchor with inner content `inner`: entities decoded, then
\* tags removed, then trimmed.
LabelOf(inner) == StrTrim(StripTags(DecodeLabelEntities(inner)))

\* The characters before the anchor that are searched for <del>.
DelWindow == 50

\* `direct${linkNumberMatch[1]}`, or 'direct' when the label has no number.
DirectNumbered(label, m) ==
    IF m.ok THEN "direct" \o Group(label, m, 1) ELSE "direct"

DirectType(label) ==
    DirectNumbered(label, Exec(label, TRUE, LinkNumberPattern, 1))

\* Mutant of LinkType: the url decides before the label does.
LinkTypeUrlFirst(label, url) ==
    IF Includes(url, "turbobit") THEN "turbobit"
    ELSE IF Includes(url, "pixeldrain") THEN "pixeldrain"
    ELSE IF Includes(url, "mediafire") THEN "mediafire"
    ELSE IF Includes(url, "drive.google.com") THEN "googledrive"
    ELSE IF LowerIncludes(label, "torrent") THEN "torrent"
    ELSE IF LowerIncludes(label, "alternatif") THEN DirectType(label)
    ELSE IF LowerIncludes(url, "torrent") THEN "torrent"
    ELSE "direct"

\* The type of a link with the given label and url.
LinkType(label, url) ==
    IF LowerIncludes(label, "torrent") THEN "torrent"
    ELSE IF Includes(url, "turbobit") THEN "turbobit"
    ELSE IF LowerIncludes(label, "alternatif") THEN DirectType(label)
    ELSE IF Includes(url, "pixeldrain") THEN "pixeldrain"
    ELSE IF Includes(url, "mediafire") THEN "mediafire"
    ELSE IF Includes(url, "drive.google.com") THEN "googledrive"
    ELSE IF LowerIncludes(url, "torrent") THEN "torrent"
    ELSE "direct"

\* isUnavailable of the match m: <del> occurs in the DelWindow characters
\* before the match or in the match itself.
IsUnavailable(html, m) ==
    LET first == IF m.start - DelWindow > 1 THEN m.start - DelWindow ELSE 1
        beforeLink == SubSeq(html, first, m.start - 1)
    IN  Includes(beforeLink, "<del>") \/ Includes(Matched(html, m), "<del>")

\* The while loop of extractDownloadLinks from lastIndex `from`; LinkOf is the
\* body of the loop for the match m, its url and its label.
RECURSIVE LinksFrom(_, _)

LinkOf(html, m, url, labelText) ==
    IF url = "" \/ labelText = "" THEN <<>>
    ELSE <<[type |-> LinkType(labelText, url), url |-> url,
            available |-> ~IsUnavailable(html, m), label |-> labelText]>>

LinksAt(html, m) ==
    IF ~m.ok THEN <<>>
    ELSE LinkOf(html, m, Group(html, m, 1), LabelOf(Group(html, m, 2)))
            \o LinksFrom(html, m.end)

LinksFrom(html, from) == LinksAt(html, Exec(html, TRUE, LinkPattern, from))

\* BaseProvider.extractDownloadLinks
ExtractDownloadLinks(html) == LinksFrom(html, 1)

\* ------------------------------------------------------ system requirements

\* Stand-ins for the characters outside ASCII that the patterns and the
\* documents use: capital I with dot, s with cedilla, dotless i, en dash.
\* None of them is a letter of [A-Za-z] and none has a case variant in a
\* document of the model.
DottedI == "@"
Cedilla == "$"
DotlessI == "!"
EnDash == "~"

\* \s, \d and the classes of the field patterns.
Ws == Chr(Whitespace)
Digit == Chr(Digits)
Word == Chr(Letters \cup Digits \cup {"-"})
Words == Chr(Letters \cup Digits \cup Whitespace \cup {"-", "."})
NoDash == NotChr(Whitespace \cup {EnDash, "-"})
Pluses == Opt(Lit("++"))
Islemci == Lit(DottedI \o Cedilla \o "lemci")
EkranKarti == Cat(<<Lit("Ekran Kart"), Chr({DotlessI, "i"})>>)

\* /(?:PC\s*Sistem|Sistem)\s*(?:vb\s*)?Gereksinimi/i
RequirementsSectionPattern ==
    Cat(<<Alt(<<Cat(<<Lit("PC"), Star(Ws), Lit("Sistem")>>), Lit("Sistem")>>),
          Star(Ws), Opt(Cat(<<Lit("vb"), Star(Ws)>>)), Lit("Gereksinimi")>>)

\* /<hr\s*\/?>|<p[^>]*>\s*<strong/i
SectionBreakPattern ==
    Alt(<<Cat(<<Lit("<hr"), Star(Ws), Opt(Lit("/")), Lit(">")>>),
          Cat(<<Lit("<p"), Star(NotChr({">"})), Lit(">"), Star(Ws),
                Lit("<strong")>>)>>)

\* /<br\s*\/?>/gi
BrPattern == Cat(<<Lit("<br"), Star(Ws), Opt(Lit("/")), Lit(">")>>)

\* The characters of the section that are read when no break follows.
SectionLimit == 3000

\* afterSection.substring(0, hrMatch) or afterSection.substring(0, 3000)
SectionUpTo(afterSection, hr) ==
    IF hr.ok THEN SubSeq(afterSection, 1, hr.start - 1)
    ELSE IF Len(afterSection) > SectionLimit
         THEN SubSeq(afterSection, 1, SectionLimit)
         ELSE afterSection

\* requirementsText of the text from the heading on.
RequirementsText(afterSection) ==
    SectionUpTo(afterSection, Exec(afterSection, TRUE, SectionBreakPattern, 1))

\* The entity replacements of extractSystemRequirements, in code order.
RequirementEntities ==
    <<(<<"&nbsp;", " ">>), (<<"&lt;", "<">>), (<<"&gt;", ">">>),
      (<<"&amp;", "&">>), (<<"&#8211;", "-">>), (<<"&#8230;", "...">>),
      (<<EnDash, "-">>)>>

\* text: <br> to line breaks, tags to blanks, entities decoded, whitespace
\* collapsed, trimmed.
RequirementsPlainText(requirementsText) ==
    StrTrim(Replace(
        ReplaceEach(
            Replace(Replace(requirementsText, TRUE, BrPattern, "\n"),
                    TRUE, TagPattern, " "),
            RequirementEntities),
        FALSE, Plus(Ws), " "))

Size == Alt(<<Lit("GB"), Lit("MB")>>)
Volume == Alt(<<Lit("GB"), Lit("MB"), Lit("TB")>>)
Decimal == Cat(<<Plus(Digit), Opt(Cat(<<Lit("."), Plus(Digit)>>))>>)
Bits == Opt(Cat(<<Plus(Chr(Whitespace \cup {"-", "/"})), Plus(Digit),
                  Lit("bit")>>))

osPatterns ==
    <<Cat(<<Lit("Window"), LazyPlus(AnyChar), Lit("64-bit")>>),
      Cat(<<Lit("Windows"), LazyPlus(AnyChar), Lit("64-bit")>>),
      Cat(<<Lit("Window"), LazyPlus(AnyChar), Lit("bit")>>),
      Cat(<<Lit("Windows"), LazyPlus(AnyChar), Lit("bit")>>),
      Cat(<<Lit("Window"), Plus(Ws), Decimal, Bits>>),
      Cat(<<Lit("Windows"), Plus(Ws), Decimal, Bits>>),
      Cat(<<Lit("Windows"), Plus(Ws), Plus(Digit),
            Grp(1, Cat(<<Lit("-"), Plus(Digit)>>))>>)>>

\* ([A-Za-z]+\s+[A-Za-z0-9\-]+)
TwoWords == Grp(1, Cat(<<Plus(Chr(Letters)), Plus(Ws), Plus(Word)>>))

\* value / other ++ keyword
SlashBefore(value, keyword) ==
    Cat(<<value, Star(Ws), Lit("/"), Star(Ws), LazyPlus(Words), Star(Ws),
          Pluses, Star(Ws), keyword>>)

\* value ++ keyword
Before(value, keyword) == Cat(<<value, Star(Ws), Pluses, Star(Ws), keyword>>)

cpuPatterns ==
    <<SlashBefore(TwoWords, Islemci),
      SlashBefore(TwoWords, Lit("Processor")),
      SlashBefore(TwoWords, Lit("CPU")),
      Before(TwoWords, Lit("GHZ")),
      Grp(1, Cat(<<Plus(Digit), Lit("."), Plus(Digit), Star(Ws), Lit("GHZ")>>)),
      Grp(1, Cat(<<Plus(Digit), Lit("."), Star(Ws), Lit("GHZ")>>)),
      Cat(<<Grp(1, Plus(NoDash)), Star(Ws), Lit("GPU"), Star(Ws), Pluses,
            Star(Ws), Islemci>>),
      Before(Grp(1, Plus(NoDash)), Islemci),
      Before(Grp(1, Plus(NoDash)), Lit("Processor")),
      Before(Grp(1, Plus(NoDash)), Lit("CPU"))>>

gpuPatterns ==
    <<Before(Grp(1, Cat(<<Plus(Digit), Star(Ws), Lit("GB")>>)), Lit("Vram")),
      SlashBefore(Grp(1, LazyPlus(Words)), EkranKarti),
      SlashBefore(Grp(1, LazyPlus(Words)), Lit("Graphics")),
      SlashBefore(Grp(1, LazyPlus(Words)), Lit("GPU")),
      Before(Grp(1, Plus(NoDash)), EkranKarti),
      Before(Grp(1, Plus(NoDash)), Lit("Graphics")),
      Before(Grp(1, Plus(NoDash)), Lit("GPU"))>>

Amount(unit) == Grp(1, Cat(<<Plus(Digit), Star(Ws), unit>>))

ramPatterns ==
    <<Before(Amount(Size), Lit("RAM")),
      Before(Amount(Size), Lit("Bellek")),
      Before(Amount(Size), Lit("Memory")),
      Cat(<<Amount(Size), Star(Ws), Lit("Ram")>>)>>

storagePatterns ==
    <<Grp(1, Cat(<<Plus(Digit), Lit("."), Plus(Digit), Star(Ws), Volume>>)),
      Before(Amount(Volume), Lit("Depo")),
      Before(Amount(Volume), Lit("Storage")),
      Before(Amount(Volume), Lit("Disk")),
      Before(Amount(Volume), Lit("Alan")),
      Cat(<<Lit("Oyunun Boyutu"), Star(Ws), Amount(Volume)>>)>>

dxPatterns ==
    <<Cat(<<Lit("DX"), Star(Ws), Grp(1, Decimal)>>),
      Cat(<<Lit("DirectX"), Star(Ws), Grp(1, Decimal)>>)>>

\* The places of s where a word starts and the place after the word that
\* starts at i.
WordStarts(s) ==
    {i \in 1..Len(s) : At(s, i) \notin Whitespace
                        /\ (i = 1 \/ At(s, i - 1) \in Whitespace)}

WordEnd(s, i) ==
    Least({j \in i..(Len(s) + 1) : j = Len(s) + 1 \/ At(s, j) \in Whitespace})

NthOf(S, k) == CHOOSE i \in S : Cardinality({j \in S : j <= i}) = k

\* s.split(/\s+/) of a trimmed, non-empty string.
Split(s) ==
    [k \in 1..Cardinality(WordStarts(s)) |->
        SubSeq(s, NthOf(WordStarts(s), k),
               WordEnd(s, NthOf(WordStarts(s), k)) - 1)]

\* parts[0] + ' ' + parts[1], or the text itself when it is one word.
CpuOfParts(cpuText, parts) ==
    IF Len(parts) >= 2 THEN parts[1] \o " " \o parts[2]
    ELSE IF Len(parts) = 1 THEN cpuText ELSE ""

CpuOf(cpuText) == CpuOfParts(cpuText, Split(cpuText))

brandNames == {"GeForce", "Radeon", "Arc"}
seriesNames == {"GTX", "RTX", "RX", "HD", "GT"}

\* /^\d+$/
IsNumber(w) == w # "" /\ \A i \in 1..Len(w) : At(w, i) \in Digits

\* The gpu of the group text and its trimmed words.
GpuOfParts(group, gpuText, parts) ==
    IF Len(parts) >= 2
    THEN IF IsNumber(parts[1]) /\ parts[2] \in {"GB", "MB", "TB"}
         THEN group \o " Vram"
         ELSE IF parts[2] \in brandNames THEN parts[2]
         ELSE IF parts[2] \in seriesNames /\ Len(parts) >= 3
                    /\ parts[3] \in brandNames THEN parts[3]
         ELSE IF parts[2] \in seriesNames THEN parts[2]
         ELSE IF Len(parts) >= 3 /\ parts[3] \in brandNames THEN parts[3]
         ELSE parts[2]
    ELSE gpuText

GpuOf(group) == GpuOfParts(group, StrTrim(group), Split(StrTrim(group)))

Fields == {"os", "cpu", "gpu", "ram", "storage", "directX"}

PatternsOf(field) ==
    CASE field = "os" -> osPatterns
      [] field = "cpu" -> cpuPatterns
      [] field = "gpu" -> gpuPatterns
      [] field = "ram" -> ramPatterns
      [] field = "storage" -> storagePatterns
      [] field = "directX" -> dxPatterns

\* match[0] for the os, match[1] for the other fields.
Captured(field, text, m) ==
    IF field = "os" THEN Matched(text, m) ELSE Group(text, m, 1)

\* The value a field gets from the captured text.
ValueOf(field, captured) ==
    CASE field = "cpu" -> CpuOf(StrTrim(captured))
      [] field = "gpu" -> GpuOf(captured)
      [] field = "directX" -> "DirectX " \o captured
      [] OTHER -> StrTrim(captured)

\* The value the i-th pattern of a field gives: that of its capture when it
\* matches with a non-empty capture, '' otherwise.
ValueAt(field, text, m) ==
    IF m.ok /\ Captured(field, text, m) # ""
    THEN ValueOf(field, Captured(field, text, m))
    ELSE ""

\* The pattern stops the for loop: it matched with a non-empty capture and,
\* for cpu and gpu, gave a non-empty value.
StopsLoop(field, text, m) ==
    /\ m.ok
    /\ Captured(field, text, m) # ""
    /\ field \in {"cpu", "gpu"} => ValueAt(field, text, m) # ""

\* The for loop over the patterns of a field: the value of the first pattern
\* that stops the loop; '' when none does.
FieldOf(field, text, patterns, stops) ==
    IF stops = {} THEN ""
    ELSE ValueAt(field, text, Exec(text, TRUE, patterns[Least(stops)], 1))

FieldFrom(field, text, patterns) ==
    FieldOf(field, text, patterns,
            {i \in 1..Len(patterns) :
                StopsLoop(field, text, Exec(text, TRUE, patterns[i], 1))})

\* The requirements record, and null.
NoRequirements ==
    [isNull |-> TRUE, os |-> "", cpu |-> "", gpu |-> "", ram |-> "",
     storage |-> "", directX |-> ""]

RequirementsOf(text) ==
    [isNull |-> FALSE,
     os |-> FieldFrom("os", text, osPatterns),
     cpu |-> FieldFrom("cpu", text, cpuPatterns),
     gpu |-> FieldFrom("gpu", text, gpuPatterns),
     ram |-> FieldFrom("ram", text, ramPatterns),
     storage |-> FieldFrom("storage", text, storagePatterns),
     directX |-> FieldFrom("directX", text, dxPatterns)]

\* Mutant of NullIfEmpty: the record is returned even when it is empty.
KeepEmpty(requirements) == requirements

\* return null when all six fields are empty.
NullIfEmpty(requirements) ==
    IF \A f \in Fields : requirements[f] = "" THEN NoRequirements
    ELSE requirements

\* Mutant of SectionOf: the text is read from the heading to the end of the
\* document.
SectionToTheEnd(htmlContent, sectionMatch) == From(htmlContent, sectionMatch.start)

\* requirementsText for the heading match.
SectionOf(htmlContent, sectionMatch) ==
    RequirementsText(From(htmlContent, sectionMatch.start))

RequirementsAt(htmlContent, sectionMatch) ==
    IF ~sectionMatch.ok THEN NoRequirements
    ELSE NullIfEmpty(RequirementsOf(
            RequirementsPlainText(SectionOf(htmlContent, sectionMatch))))

\* BaseProvider.extractSystemRequirements
ExtractSystemRequirements(htmlContent) ==
    RequirementsAt(htmlContent,
                   Exec(htmlContent, TRUE, RequirementsSectionPattern, 1))

\* ------------------------------------------------------------ media gallery

\* imgPattern: /<img[^>]+src=["']([^"']+)["'][^>]*>/gi
ImgPattern ==
    Cat(<<Lit("<img"), Plus(NotChr({">"})), Lit("src="), Chr({"\"", "'"}),
          Grp(1, Plus(NotChr({"\"", "'"}))), Chr({"\"", "'"}),
          Star(NotChr({">"})), Lit(">")>>)

\* Array.prototype.includes
Has(images, url) == \E i \in 1..Len(images) : images[i] = url

\* Mutant of Push: a url that is in the list already is pushed again.
PushAgain(images, url) ==
    IF url # "" /\ ~Includes(url, "avatar") THEN Append(images, url)
    ELSE images

\* if (url && !images.includes(url) && !url.includes('avatar')) images.push(url)
Push(images, url) ==
    IF url # "" /\ ~Has(images, url) /\ ~Includes(url, "avatar")
    THEN Append(images, url)
    ELSE images

\* The while loop of extractMediaGallery from lastIndex `from`, with the
\* images pushed so far.
RECURSIVE ImagesFrom(_, _, _)

ImagesAt(html, m, images) ==
    IF ~m.ok THEN images
    ELSE ImagesFrom(html, m.end, Push(images, Group(html, m, 1)))

ImagesFrom(html, from, images) ==
    ImagesAt(html, Exec(html, TRUE, ImgPattern, from), images)

\* BaseProvider.extractMediaGallery
ExtractMediaGallery(html) == ImagesFrom(html, 1, <<>>)

\* ------------------------------------------------------------ sanitizeHtml

\* /<\/p>/gi
EndOfParagraph == Lit("</p>")

\* /<[^>]+>/g
AnyTagPattern == Cat(<<Lit("<"), Plus(NotChr({">"})), Lit(">")>>)

\* The entity replacements of sanitizeHtml, in code order.
SanitizeEntities ==
    <<(<<"&nbsp;", " ">>), (<<"&amp;", "&">>), (<<"&lt;", "<">>),
      (<<"&gt;", ">">>)>>

\* BaseProvider.sanitizeHtml
SanitizeHtml(html) ==
    StrTrim(ReplaceEach(
        Replace(Replace(Replace(html, TRUE, BrPattern, "\n"),
                        TRUE, EndOfParagraph, "\n\n"),
                FALSE, AnyTagPattern, ""),
        SanitizeEntities))

\* ------------------------------------------------------------ embedded data

\* An optional value of the response: undefined, or the value that is there.
Missing == [has |-> FALSE]
Some(v) == [has |-> TRUE, v |-> v]

\* `x?.[0]` and `x?.[1]` on an optional array.
ElementOf(arr, i) ==
    IF arr.has /\ Len(arr.v) >= i THEN Some(arr.v[i]) ELSE Missing

\* `post._embedded?.[field]`; featuredmedia and term are the fields
\* 'wp:featuredmedia' and 'wp:term'.
Embedded(post, field) ==
    IF post.embedded.has THEN post.embedded.v[field] ELSE Missing

\* The author transformPostToGame makes up when none is embedded.
UnknownAuthor(post) ==
    [id |-> post.author, name |-> "Unknown", slug |-> "unknown", link |-> "",
     avatarUrls |-> [size24 |-> "", size48 |-> "", size96 |-> ""]]

\* The Author of an embedded author; reading avatar_urls['24'] throws a
\* TypeError when the author carries no avatar_urls.
AuthorFrom(authorData) ==
    IF authorData.avatar_urls.has
    THEN [threw |-> FALSE,
          author |-> [id |-> authorData.id, name |-> authorData.name,
                      slug |-> authorData.slug, link |-> authorData.link,
                      avatarUrls |-> authorData.avatar_urls.v]]
    ELSE [threw |-> TRUE]

\* Mutant of AuthorOf: authorData.id is read without the test of authorData.
AuthorOfUnguarded(post) ==
    IF ElementOf(Embedded(post, "author"), 1).has
    THEN AuthorFrom(ElementOf(Embedded(post, "author"), 1).v)
    ELSE [threw |-> TRUE]

\* transformPostToGame, the author: `authorData ? {...} : {...}`
AuthorOf(post) ==
    IF ElementOf(Embedded(post, "author"), 1).has
    THEN AuthorFrom(ElementOf(Embedded(post, "author"), 1).v)
    ELSE [threw |-> FALSE, author |-> UnknownAuthor(post)]

\* `mediaData?.source_url || ''`
CoverImageFrom(mediaData) ==
    IF mediaData.has /\ mediaData.v.source_url.has
    THEN mediaData.v.source_url.v ELSE ""

\* `mediaData?.media_details?.sizes?.thumbnail?.source_url || coverImage || ''`
ThumbnailFrom(mediaData) ==
    IF mediaData.has /\ mediaData.v.thumbnail.has /\ mediaData.v.thumbnail.v # ""
    THEN mediaData.v.thumbnail.v ELSE CoverImageFrom(mediaData)

\* transformPostToGame, the featured media.
CoverImageOf(post) ==
    CoverImageFrom(ElementOf(Embedded(post, "featuredmedia"), 1))

ThumbnailOf(post) ==
    ThumbnailFrom(ElementOf(Embedded(post, "featuredmedia"), 1))

\* `post._embedded?.['wp:term']?.[i] || []`, mapped to {id, name, slug, link}
TermsOf(post, i) ==
    IF ElementOf(Embedded(post, "term"), i).has
    THEN [n \in DOMAIN ElementOf(Embedded(post, "term"), i).v |->
             [id |-> ElementOf(Embedded(post, "term"), i).v[n].id,
              name |-> ElementOf(Embedded(post, "term"), i).v[n].name,
              slug |-> ElementOf(Embedded(post, "term"), i).v[n].slug,
              link |-> ElementOf(Embedded(post, "term"), i).v[n].link]]
    ELSE <<>>

\* transformPostToGame, as far as the embedded data and the read of
\* post.content.rendered go: the Game's author, images, categories and
\* tags, or the TypeError of a read of undefined.
TransformEmbedded(post) ==
    IF AuthorOf(post).threw \/ ~post.content
    THEN [by |-> "transformPostToGame", threw |-> TRUE]
    ELSE [by |-> "transformPostToGame", threw |-> FALSE,
          id |-> post.id,
          author |-> AuthorOf(post).author,
          coverImage |-> CoverImageOf(post),
          thumbnail |-> ThumbnailOf(post),
          categories |-> TermsOf(post, 1),
          tags |-> TermsOf(post, 2)]

\* ------------------------------------------------------------------- state

VARIABLES
    workload,         \* the workload the behaviour's callers draw from
    now,              \* Date.now()
    cache,            \* BaseProvider.cache: key -> value
    cacheTimestamps,  \* BaseProvider.cacheTimestamps: key -> creation time
    config,           \* BaseProvider.config
    calls,            \* the calls suspended on an await, by call number
    nstart,           \* calls started so far
    nticks,           \* clock advances so far
    last,             \* history: the call that settled most recently
    stored,           \* history: per key, the latest store since invalidation
    notFound,         \* history: per key, the time of the latest 404 -> null
    content,          \* the post or content.rendered a transformer is given
    extracted,        \* what the transformer function made of it
    isLoading,        \* ProviderContextProvider: useState isLoading
    error,            \* ProviderContextProvider: useState error
    pending,          \* the operations withLoading is awaiting
    nloads            \* withLoading calls so far

vars == <<workload, now, cache, cacheTimestamps, config, calls, nstart,
          nticks, last, stored, notFound, content, extracted, isLoading,
          error, pending, nloads>>

NoInput == Input("none", FALSE, 0, 0, 0, <<>>, 0)

\* A call slot that holds no suspended call.
Idle ==
    [pc |-> "idle", input |-> NoInput, key |-> "", reqs |-> 0, lookups |-> 0,
     status |-> 0, fresh |-> FALSE, freshVal |-> Undefined, nf |-> FALSE,
     rival |-> Undefined, body |-> <<>>, since |-> FALSE, cleared |-> FALSE]

NoEntry == [val |-> Undefined, at |-> 0, cleared |-> FALSE]

NoLast ==
    [input |-> NoInput, key |-> "", reqs |-> 0, lookups |-> 0,
     status |-> 0, fresh |-> FALSE, freshVal |-> Undefined, nf |-> FALSE,
     rival |-> Undefined, body |-> <<>>, since |-> FALSE, cleared |-> FALSE,
     inner |-> NoOutcome, outcome |-> NoOutcome, wrote |-> FALSE]

\* OYUNINDIR_CONFIG, the configuration ProviderService constructs with.
InitialConfig == [baseUrl |-> "https://www.oyunindir.vip", category |-> "12"]

\* The partial configurations updateConfig is called with.
Patches == {[apiKey |-> "k"]}

\* ProviderContextProvider as first rendered: useState(false),
\* useState(null), and nothing awaited.
NoError == [t |-> "null"]
FirstRender ==
    /\ isLoading = FALSE
    /\ error = NoError
    /\ pending = {}
    /\ nloads = 0

\* No content has been handed to a transformer function.
NoContent == [html |-> ""]
NotExtracted == [by |-> "none"]

\* A header value that is a string, and one that is not.
Str(s) == [t |-> "string", s |-> s]
NotAString == [t |-> "number"]

\* `new URL(s)` returns: s is an absolute http(s) URL with a host.  (The
\* strings of the model are such a URL, a host without scheme, or empty.)
ParsesAsUrl(s) ==
    \E scheme \in {"http://", "https://"} :
        /\ Len(s) > Len(scheme)
        /\ SubSeq(s, 1, Len(scheme)) = scheme

\* validateProviderConfig
ValidateProviderConfig(c) ==
    /\ c.baseUrl # ""
    /\ ParsesAsUrl(c.baseUrl)
    /\ "headers" \in DOMAIN c
          => \A name \in DOMAIN c.headers : c.headers[name].t = "string"

\* The configurations a provider may be constructed with: OYUNINDIR_CONFIG,
\* a base URL without scheme, an empty base URL, a header whose value is
\* not a string.
Configs ==
    {InitialConfig,
     [InitialConfig EXCEPT !.baseUrl = "www.oyunindir.vip"],
     [InitialConfig EXCEPT !.baseUrl = ""],
     [baseUrl |-> InitialConfig.baseUrl, category |-> InitialConfig.category,
      headers |-> [h \in {"X-Client"} |-> NotAString]]}

\* The provider as its constructor leaves it when given the configuration c:
\* the constructors store c as it is.
ConstructedWith(c) ==
    /\ now = 1
    /\ cache = <<>>
    /\ cacheTimestamps = <<>>
    /\ config = c
    /\ calls = [n \in 1..MaxOps |-> Idle]
    /\ nstart = 0
    /\ nticks = 0
    /\ last = NoLast
    /\ stored = [k \in Keys |-> NoEntry]
    /\ notFound = [k \in Keys |-> 0]

\* The provider as ProviderService constructs it.
Constructed == ConstructedWith(InitialConfig)

Init ==
    /\ workload \in DOMAIN Workloads
    /\ Constructed
    /\ content = NoContent
    /\ extracted = NotExtracted
    /\ FirstRender

\* ------------------------------------------------------------- the cache

\* Map.set and Map.delete on a map held as a function.
MapSet(m, key, v) ==
    [k \in DOMAIN m \cup {key} |-> IF k = key THEN v ELSE m[k]]
MapDelete(m, key) == [k \in DOMAIN m \ {key} |-> m[k]]

\* Mutant of GetFromCache: an entry expires one millisecond early (>=).
GetFromCacheOffByOne(key) ==
    IF key \notin DOMAIN cacheTimestamps \/ cacheTimestamps[key] = 0
    THEN [data |-> Undefined, cache |-> cache,
          cacheTimestamps |-> cacheTimestamps]
    ELSE IF now - cacheTimestamps[key] >= cacheExpiry
    THEN [data |-> Undefined, cache |-> MapDelete(cache, key),
          cacheTimestamps |-> MapDelete(cacheTimestamps, key)]
    ELSE [data |-> IF key \in DOMAIN cache THEN cache[key] ELSE Undefined,
          cache |-> cache, cacheTimestamps |-> cacheTimestamps]

\* BaseProvider.getFromCache: the data returned and the two maps as the
\* lookup leaves them (an expired entry is deleted from both).
GetFromCache(key) ==
    IF key \notin DOMAIN cacheTimestamps \/ cacheTimestamps[key] = 0
    THEN [data |-> Undefined, cache |-> cache,
          cacheTimestamps |-> cacheTimestamps]
    ELSE IF now - cacheTimestamps[key] > cacheExpiry
    THEN [data |-> Undefined, cache |-> MapDelete(cache, key),
          cacheTimestamps |-> MapDelete(cacheTimestamps, key)]
    ELSE [data |-> IF key \in DOMAIN cache THEN cache[key] ELSE Undefined,
          cache |-> cache, cacheTimestamps |-> cacheTimestamps]

\* Mutant of SetCache: the value is stored without its timestamp.
SetCacheNoTimestamp(key, data) ==
    /\ cache' = MapSet(cache, key, data)
    /\ cacheTimestamps' = cacheTimestamps

\* BaseProvider.setCache
SetCache(key, data) ==
    /\ cache' = MapSet(cache, key, data)
    /\ cacheTimestamps' = MapSet(cacheTimestamps, key, now)

\* ------------------------------------------------- the operations' parts

\* Mutant of ProviderBegin: a miss joins the fetch of a call for the same
\* key that is already suspended instead of issuing its own.
ProviderBeginSingleFlight(in) ==
    LET g == GetFromCache(CacheKey(in)) IN
    IF in.op = "searchGames" /\ Trim(in.query) = <<>>
    THEN [done |-> TRUE, outcome |-> Returned(Array(<<>>)), cache |-> cache,
          cacheTimestamps |-> cacheTimestamps, reqs |-> 0, lookups |-> 0]
    ELSE IF Truthy(g.data)
    THEN [done |-> TRUE, outcome |-> Returned(g.data), cache |-> g.cache,
          cacheTimestamps |-> g.cacheTimestamps, reqs |-> 0, lookups |-> 1]
    ELSE [done |-> FALSE, outcome |-> NoOutcome, cache |-> g.cache,
          cacheTimestamps |-> g.cacheTimestamps,
          reqs |-> IF \E m \in 1..MaxOps :
                        calls[m].pc # "idle" /\ calls[m].key = CacheKey(in)
                   THEN 0 ELSE 1,
          lookups |-> 1]

\* The operations that make their URL with buildApiUrl, whose
\* `new URL(this.apiEndpoint, this.config.baseUrl)` throws on a base that
\* is no URL; getGameById and getCategories concatenate strings instead.
UsesBuildApiUrl(in) ==
    in.op \in {"getGames", "searchGames", "getGamesByCategory"}

\* A provider operation up to its first await: the empty-query return of
\* searchGames, the cache lookup, and on a miss the URL it builds (inside
\* the try block) and the fetch it issues.
ProviderBegin(in) ==
    IF in.op = "searchGames" /\ Trim(in.query) = <<>>
    THEN [done |-> TRUE, outcome |-> Returned(Array(<<>>)), cache |-> cache,
          cacheTimestamps |-> cacheTimestamps, reqs |-> 0, lookups |-> 0]
    ELSE LET g == GetFromCache(CacheKey(in)) IN
         IF Truthy(g.data)
         THEN [done |-> TRUE, outcome |-> Returned(g.data), cache |-> g.cache,
               cacheTimestamps |-> g.cacheTimestamps, reqs |-> 0,
               lookups |-> 1]
         ELSE IF UsesBuildApiUrl(in) /\ ~ParsesAsUrl(config.baseUrl)
         THEN [done |-> TRUE,
               outcome |-> HandleError(InvalidUrlMessage, CatchContext(in)),
               cache |-> g.cache, cacheTimestamps |-> g.cacheTimestamps,
               reqs |-> 0, lookups |-> 1]
         ELSE [done |-> FALSE, outcome |-> NoOutcome, cache |-> g.cache,
               cacheTimestamps |-> g.cacheTimestamps, reqs |-> 1,
               lookups |-> 1]

\* A provider operation when fetch rejects: the catch block.
OnFetchRejected(in) == HandleError(NetworkMessage, CatchContext(in))

\* Mutant of OnNotOk: every operation maps 404 to null.
OnNotOkNullOn404(in, status) ==
    IF status = 404 THEN Returned(Null)
    ELSE HandleError(HandleError(HttpMessage(status), FailContext(in)).msg,
                     CatchContext(in))

\* A provider operation when the response is not ok: getGameById returns
\* null on 404; otherwise handleError throws inside the try block, and the
\* operation's own catch block hands that Error to handleError again.
OnNotOk(in, status) ==
    IF in.op = "getGameById" /\ status = 404 THEN Returned(Null)
    ELSE HandleError(HandleError(HttpMessage(status), FailContext(in)).msg,
                     CatchContext(in))

\* A provider operation when response.json() rejects: the catch block.
OnJsonRejected(in) == HandleError(JsonMessage, CatchContext(in))

\* a / b rounded up (Math.ceil of the quotient), b > 0.
CeilDiv(a, b) == (a + b - 1) \div b

\* Mutant of GetGamesPaginated: a page at least `limit` long has a next page.
GetGamesPaginatedAtLeast(in, outcome) ==
    IF outcome.kind = "error" THEN outcome
    ELSE LET games == outcome.val.items IN
         Returned([t |-> "page", items |-> games, page |-> in.page,
                   limit |-> in.limit, total |-> Len(games),
                   totalPages |-> CeilDiv(Len(games), in.limit),
                   hasNextPage |-> Len(games) >= in.limit,
                   hasPreviousPage |-> in.page > 1])

\* BaseProvider.getGamesPaginated around the outcome of getGames.
GetGamesPaginated(in, outcome) ==
    IF outcome.kind = "error" THEN outcome
    ELSE LET games == outcome.val.items IN
         Returned([t |-> "page", items |-> games, page |-> in.page,
                   limit |-> in.limit, total |-> Len(games),
                   totalPages |-> CeilDiv(Len(games), in.limit),
                   hasNextPage |-> Len(games) = in.limit,
                   hasPreviousPage |-> in.page > 1])

\* BaseProvider.healthCheck around the outcome of getGames(1, 1).
HealthCheck(outcome) == Returned(Bool(outcome.kind # "error"))

\* ProviderService.handleError
ServiceHandleError(message, context) ==
    Raised(<<"[ProviderService]", context>> \o message)

\* The context ProviderService gives its handleError.
ServiceContext(in) ==
    CASE in.op = "getGameById" ->
            "Failed to fetch game with id " \o ToString(in.id)
      [] in.op = "getGames" ->
            "Failed to fetch games (page: " \o ToString(in.page)
                \o ", limit: " \o ToString(in.limit) \o ")"
      [] OTHER -> "Failed"

\* Mutant of ServiceGetGameById: the falsy game is returned as it is.
ServiceGetGameByIdNoCheck(in, outcome) ==
    IF outcome.kind = "error"
    THEN ServiceHandleError(outcome.msg, ServiceContext(in))
    ELSE outcome

\* ProviderService.getGameById around the outcome of provider.getGameById:
\* a falsy game is thrown as "not found" inside the try block, and the catch
\* block wraps whatever was thrown.
ServiceGetGameById(in, outcome) ==
    IF outcome.kind = "error"
    THEN ServiceHandleError(outcome.msg, ServiceContext(in))
    ELSE IF ~Truthy(outcome.val)
    THEN ServiceHandleError(
            <<"Game with id " \o ToString(in.id) \o " not found">>,
            ServiceContext(in))
    ELSE outcome

\* The other ProviderService operations: the catch block wraps an error.
ServiceOther(in, outcome) ==
    IF outcome.kind = "error"
    THEN ServiceHandleError(outcome.msg, ServiceContext(in))
    ELSE outcome

\* What the caller of `in` gets once its provider operation has settled
\* with `outcome`.
Settle(in, outcome) ==
    LET o == CASE in.op = "healthCheck" -> HealthCheck(outcome)
               [] in.op = "getGamesPaginated" -> GetGamesPaginated(in, outcome)
               [] OTHER -> outcome
    IN  IF ~in.svc THEN o
        ELSE IF in.op = "getGameById" THEN ServiceGetGameById(in, o)
        ELSE ServiceOther(in, o)

\* ----------------------------------------------------------------- actions

\* The cache keys of the behaviour's workload.
WorkloadKeys == {CacheKey(InnerInput(in)) : in \in Workloads[workload]}

\* The history record of a call that ran as `rec`, settling in this step
\* with the provider outcome `inner`.  wrote: the step changed the cache.
Settled(rec, inner) ==
    [input |-> rec.input, key |-> rec.key, reqs |-> rec.reqs,
     lookups |-> rec.lookups, status |-> rec.status, fresh |-> rec.fresh,
     freshVal |-> rec.freshVal, nf |-> rec.nf, rival |-> rec.rival,
     body |-> rec.body, since |-> rec.since, cleared |-> rec.cleared,
     inner |-> inner, outcome |-> Settle(rec.input, inner),
     wrote |-> (cache' # cache \/ cacheTimestamps' # cacheTimestamps)]

\* A caller invokes an operation: it runs to its first await, or to its
\* return when it needs no fetch.  fresh, freshVal and nf record what the
\* history says about the key at that moment: an entry stored and still
\* within the TTL, its value, a not-found answer still within the TTL.
\* since and cleared record what happens while the call is suspended: a
\* store under its key, a clearCache() or updateConfig().
Call(in) ==
    /\ nstart < MaxOps
    /\ in \in Workloads[workload]
    /\ UNCHANGED <<content, extracted, isLoading, error, pending, nloads>>
    /\ UNCHANGED <<workload, now, config, nticks, stored, notFound>>
    /\ LET n == nstart + 1
           inner == InnerInput(in)
           key == CacheKey(inner)
           b == ProviderBegin(inner)
           rec == [pc |-> "fetch", input |-> in, key |-> key,
                   reqs |-> b.reqs, lookups |-> b.lookups, status |-> 0,
                   fresh |-> stored[key].at # 0
                             /\ now - stored[key].at <= cacheExpiry,
                   freshVal |-> stored[key].val,
                   nf |-> notFound[key] # 0
                          /\ now - notFound[key] <= cacheExpiry,
                   rival |-> Undefined, body |-> <<>>, since |-> FALSE,
                   cleared |-> FALSE]
       IN  /\ nstart' = n
           /\ cache' = b.cache
           /\ cacheTimestamps' = b.cacheTimestamps
           /\ IF b.done
              THEN /\ calls' = calls
                   /\ last' = Settled(rec, b.outcome)
              ELSE /\ calls' = [calls EXCEPT ![n] = rec]
                   /\ last' = last

\* Mutant of FetchReject: the fetch is issued again until maxRetries
\* retries have been made.
FetchRejectRetry(n) ==
    /\ calls[n].pc = "fetch"
    /\ UNCHANGED <<content, extracted, isLoading, error, pending, nloads>>
    /\ UNCHANGED <<workload, now, cache, cacheTimestamps, config, nstart,
                   nticks, stored, notFound>>
    /\ IF calls[n].reqs <= maxRetries
       THEN /\ calls' = [calls EXCEPT ![n].reqs = @ + 1]
            /\ last' = last
       ELSE /\ last' = Settled(calls[n],
                               OnFetchRejected(InnerInput(calls[n].input)))
            /\ calls' = [calls EXCEPT ![n] = Idle]

\* The fetch of call n rejects (the network failed).
FetchReject(n) ==
    /\ calls[n].pc = "fetch"
    /\ UNCHANGED <<content, extracted, isLoading, error, pending, nloads>>
    /\ UNCHANGED <<workload, now, cache, cacheTimestamps, config, nstart,
                   nticks, stored, notFound>>
    /\ last' = Settled(calls[n], OnFetchRejected(InnerInput(calls[n].input)))
    /\ calls' = [calls EXCEPT ![n] = Idle]

\* Mutant of FetchNotOk: the null of a 404 is stored under the key.
FetchNotOkCaching(n, status) ==
    /\ calls[n].pc = "fetch"
    /\ ~Ok(status)
    /\ UNCHANGED <<content, extracted, isLoading, error, pending, nloads>>
    /\ UNCHANGED <<workload, now, config, nstart, nticks, stored>>
    /\ LET rec == [calls[n] EXCEPT !.status = status]
           o == OnNotOk(InnerInput(rec.input), status)
       IN  /\ IF o.kind = "value" THEN SetCache(rec.key, o.val)
              ELSE UNCHANGED <<cache, cacheTimestamps>>
           /\ last' = Settled(rec, o)
           /\ notFound' = IF o.kind = "value"
                          THEN [notFound EXCEPT ![rec.key] = now]
                          ELSE notFound
    /\ calls' = [calls EXCEPT ![n] = Idle]

\* The fetch of call n resolves with a response that is not ok.
FetchNotOk(n, status) ==
    /\ calls[n].pc = "fetch"
    /\ ~Ok(status)
    /\ UNCHANGED <<content, extracted, isLoading, error, pending, nloads>>
    /\ UNCHANGED <<workload, now, cache, cacheTimestamps, config, nstart,
                   nticks, stored>>
    /\ LET rec == [calls[n] EXCEPT !.status = status]
           o == OnNotOk(InnerInput(rec.input), status)
       IN  /\ last' = Settled(rec, o)
           /\ notFound' = IF o.kind = "value"
                          THEN [notFound EXCEPT ![rec.key] = now]
                          ELSE notFound
    /\ calls' = [calls EXCEPT ![n] = Idle]

\* Mutant of FetchBadBody: the failure is stored under the key as an empty
\* result before it is raised.
FetchBadBodyCaching(n, status) ==
    /\ calls[n].pc = "fetch"
    /\ Ok(status)
    /\ UNCHANGED <<content, extracted, isLoading, error, pending, nloads>>
    /\ UNCHANGED <<workload, now, config, nstart, nticks, stored, notFound>>
    /\ SetCache(calls[n].key, Array(<<>>))
    /\ last' = Settled([calls[n] EXCEPT !.status = status],
                       OnJsonRejected(InnerInput(calls[n].input)))
    /\ calls' = [calls EXCEPT ![n] = Idle]

\* The fetch of call n resolves with an ok response whose body is not JSON:
\* response.json() rejects.  (The awaits of fetch and of response.json() are
\* taken in one step: the code between them changes no state.)
FetchBadBody(n, status) ==
    /\ calls[n].pc = "fetch"
    /\ Ok(status)
    /\ UNCHANGED <<content, extracted, isLoading, error, pending, nloads>>
    /\ UNCHANGED <<workload, now, cache, cacheTimestamps, config, nstart,
                   nticks, stored, notFound>>
    /\ last' = Settled([calls[n] EXCEPT !.status = status],
                       OnJsonRejected(InnerInput(calls[n].input)))
    /\ calls' = [calls EXCEPT ![n] = Idle]

\* The fetch of call n resolves with an ok response and response.json()
\* with `body`: the operation builds its value, stores it and returns it;
\* when a transformation throws, the catch block raises and nothing is
\* stored.  rival: a call for the same key that started earlier and is still
\* suspended learns the value this one stored.
FetchOk(n, status, body) ==
    /\ calls[n].pc = "fetch"
    /\ Ok(status)
    /\ body \in Bodies(InnerInput(calls[n].input))
    /\ UNCHANGED <<content, extracted, isLoading, error, pending, nloads>>
    /\ UNCHANGED <<workload, now, config, nstart, nticks, notFound>>
    /\ LET rec == [calls[n] EXCEPT !.status = status, !.body = body]
           o == BuildValue(InnerInput(rec.input), body)
       IN  IF o.kind = "value"
           THEN /\ SetCache(rec.key, o.val)
                /\ last' = Settled(rec, o)
                /\ stored' = [stored EXCEPT
                                 ![rec.key] = [val |-> o.val, at |-> now,
                                               cleared |-> rec.cleared]]
                /\ calls' = [m \in 1..MaxOps |->
                               IF m = n THEN Idle
                               ELSE IF calls[m].pc # "idle"
                                       /\ calls[m].key = rec.key /\ m < n
                               THEN [calls[m] EXCEPT !.rival = o.val,
                                                     !.since = TRUE]
                               ELSE IF calls[m].pc # "idle"
                                       /\ calls[m].key = rec.key
                               THEN [calls[m] EXCEPT !.since = TRUE]
                               ELSE calls[m]]
           ELSE /\ UNCHANGED <<cache, cacheTimestamps, stored>>
                /\ last' = Settled(rec, o)
                /\ calls' = [calls EXCEPT ![n] = Idle]

\* The suspended calls after a clearCache(): their requests were issued
\* before it.
Overtaken ==
    [m \in 1..MaxOps |->
        IF calls[m].pc # "idle" THEN [calls[m] EXCEPT !.cleared = TRUE]
        ELSE calls[m]]

\* BaseProvider.clearCache
ClearCache ==
    /\ cache' = <<>>
    /\ cacheTimestamps' = <<>>
    /\ stored' = [k \in Keys |-> NoEntry]
    /\ notFound' = [k \in Keys |-> 0]
    /\ calls' = Overtaken
    /\ UNCHANGED <<content, extracted, isLoading, error, pending, nloads>>
    /\ UNCHANGED <<workload, now, config, nstart, nticks, last>>

\* Mutant of ClearCacheKey: the value is deleted and its timestamp is left.
ClearCacheKeyValueOnly(key) ==
    /\ key \in WorkloadKeys
    /\ cache' = MapDelete(cache, key)
    /\ cacheTimestamps' = cacheTimestamps
    /\ stored' = [stored EXCEPT ![key] = NoEntry]
    /\ notFound' = [notFound EXCEPT ![key] = 0]
    /\ UNCHANGED <<content, extracted, isLoading, error, pending, nloads>>
    /\ UNCHANGED <<workload, now, config, calls, nstart, nticks, last>>

\* BaseProvider.clearCacheKey
ClearCacheKey(key) ==
    /\ key \in WorkloadKeys
    /\ cache' = MapDelete(cache, key)
    /\ cacheTimestamps' = MapDelete(cacheTimestamps, key)
    /\ stored' = [stored EXCEPT ![key] = NoEntry]
    /\ notFound' = [notFound EXCEPT ![key] = 0]
    /\ UNCHANGED <<content, extracted, isLoading, error, pending, nloads>>
    /\ UNCHANGED <<workload, now, config, calls, nstart, nticks, last>>

\* BaseProvider.updateConfig: merge the patch, then clearCache().
UpdateConfig(patch) ==
    /\ config' = [f \in DOMAIN config \cup DOMAIN patch |->
                    IF f \in DOMAIN patch THEN patch[f] ELSE config[f]]
    /\ cache' = <<>>
    /\ cacheTimestamps' = <<>>
    /\ stored' = [k \in Keys |-> NoEntry]
    /\ notFound' = [k \in Keys |-> 0]
    /\ calls' = Overtaken
    /\ UNCHANGED <<content, extracted, isLoading, error, pending, nloads>>
    /\ UNCHANGED <<workload, now, nstart, nticks, last>>

\* The clock advances by d milliseconds.
Tick(d) ==
    /\ nticks < MaxTicks
    /\ now' = now + d
    /\ nticks' = nticks + 1
    /\ UNCHANGED <<content, extracted, isLoading, error, pending, nloads>>
    /\ UNCHANGED <<workload, cache, cacheTimestamps, config, calls, nstart,
                   last, stored, notFound>>

AllBodies == UNION {Bodies(InnerInput(in)) : in \in Inputs}

Next ==
    \/ \E in \in Inputs : Call(in)
    \/ \E n \in 1..MaxOps : FetchReject(n)
    \/ \E n \in 1..MaxOps, status \in Statuses : FetchNotOk(n, status)
    \/ \E n \in 1..MaxOps, status \in Statuses : FetchBadBody(n, status)
    \/ \E n \in 1..MaxOps, status \in Statuses, body \in AllBodies :
          FetchOk(n, status, body)
    \/ ClearCache
    \/ \E key \in Keys : ClearCacheKey(key)
    \/ \E patch \in Patches : UpdateConfig(patch)
    \/ \E d \in {1, cacheExpiry} : Tick(d)

Spec == Init /\ [][Next]_vars

\* ------------------------------------------- extractDownloadLinks, applied

\* Anchors in one document.
MaxAnchors == 2

\* The hrefs of the anchors: one per host the classification knows, one that
\* names a torrent file, one plain.
Urls ==
    {"https://www.dosyadrive.vip/f", "https://turbobit.net/test123.html",
     "https://pixeldrain.com/u/abc123", "https://www.mediafire.com/folder/t",
     "https://drive.google.com/file/d/xyz/view", "https://x.vip/Game.Torrent"}

\* The inner contents of the anchors: plain text, text in tags, entities.
Inners ==
    {"Indir",
     "<strong>&lt;&lt;&lt; Alternatif: Link1 &gt;&gt;&gt;</strong>",
     "<strong>&lt;&lt;&lt; Torrent: Indir &gt;&gt;&gt;</strong>",
     "ALTERNATIF Link 4",
     "<b>Alternatif</b> Linkler",
     "Test &#8211; Special &amp; Chars &lt;&gt;",
     "&lt;b&gt;Indir&lt;/b&gt;",
     " <b>&nbsp;</b> "}

\* An anchor of a document; wrapped: it stands inside <del>...</del>.
Anchor(url, inner, wrapped) ==
    [url |-> url, inner |-> inner, wrapped |-> wrapped]

AnchorHtml(a) ==
    (IF a.wrapped THEN "<del>" ELSE "")
        \o "<a href=\"" \o a.url \o "\">" \o a.inner \o "</a>"
        \o (IF a.wrapped THEN "</del>" ELSE "")

\* The anchors of a document one after the other, `gap` between them.
RECURSIVE Joined(_, _)
Joined(anchors, gap) ==
    IF Len(anchors) = 1 THEN AnchorHtml(anchors[1])
    ELSE AnchorHtml(anchors[1]) \o gap \o Joined(Tail(anchors), gap)

LinkContent(anchors, gap) ==
    [html |-> Joined(anchors, gap), anchors |-> anchors]

\* Anchors that differ in length and in being wrapped: the short one with
\* its </del> is shorter than DelWindow, the long one is longer.
Siblings ==
    {Anchor(u, "Indir", w) :
        u \in {"https://a.vip/1",
               "https://www.dosyadrive.vip/files/2024/game-setup-full.html"},
        w \in BOOLEAN}

\* The documents extractDownloadLinks is applied to: every url with every
\* inner content, and the sequences of sibling anchors.
LinkContents ==
    {LinkContent(<<Anchor(u, i, FALSE)>>, "") : u \in Urls, i \in Inners}
    \cup {LinkContent(as, gap) :
            as \in UNION {[1..n -> Siblings] : n \in 1..MaxAnchors},
            gap \in {"", "<hr />"}}

InitLinks ==
    /\ workload = "listing"
    /\ Constructed
    /\ content \in LinkContents
    /\ extracted = NotExtracted
    /\ FirstRender

\* transformPostToGame hands content.rendered to extractDownloadLinks.
ExtractLinks ==
    /\ extracted.by = "none"
    /\ extracted' = [by |-> "extractDownloadLinks",
                     value |-> ExtractDownloadLinks(content.html)]
    /\ UNCHANGED <<content, workload, now, cache, cacheTimestamps, config,
                   calls, nstart, nticks, last, stored, notFound>>
    /\ UNCHANGED <<isLoading, error, pending, nloads>>

NextLinks == ExtractLinks

SpecLinks == InitLinks /\ [][NextLinks]_vars

\* ------------------------------------------ specification of the requirements

\* Text before the heading: none, or a value that reads like a requirement.
Befores == {"", "<p>8 GB RAM</p>"}

\* Headings: one the section pattern does not match and two it matches.
Headings ==
    {[html |-> "<p>Sistem Gereksinimleri</p>", matches |-> FALSE],
     [html |-> "<p><strong>PC Sistem Gereksinimi:</strong></p>",
      matches |-> TRUE],
     [html |-> "<h3>SISTEM vb GEREKSINIMI</h3>", matches |-> TRUE]}

\* Sections: one without a value, the one of the unit test, one with a
\* processor and a graphics card, one with the memory of the graphics card
\* and the disk space, one whose graphics card starts with the brand.
Sections ==
    {"<p>Oyun hakkinda bilgi</p>",
     "<p>Windows 10/x64-bit<br />4 GB RAM<br />10 GB Storage<br />DX 11</p>",
     "<p>Intel i5-6500 / AMD A10-58OOK ++ " \o DottedI \o Cedilla
        \o "lemci<br>Nvidia GeForce GTX 650 / AMD Radeon ++ Ekran Kart"
        \o DotlessI \o "</p>",
     "<p>4 GB RAM<br />1.5 GB Vram<br />10 GB Depo ++ vb Alan"
        \o DotlessI \o "</p>",
     "<p>Intel i5-6500 / AMD A10-58OOK ++ " \o DottedI \o Cedilla
        \o "lemci H" \o DotlessI \o "z" \o DotlessI
        \o "<br>GeForce GTX 650 / Radeon HD 7510 ++ Ekran Kart"
        \o DotlessI \o "</p>"}

\* What ends the section: nothing, an <hr> tag, an <hr> tag with an attribute.
Breaks == {"", "<hr />", "<hr class=\"wp-block-separator\"/>"}

\* Text after the break: none, or values that read like requirements.
Afters == {"", "<p>16 GB RAM &#8211; DirectX 12</p>"}

RequirementsContent(before, heading, section, break, after) ==
    [html |-> before \o heading.html \o section \o break \o after,
     before |-> before, heading |-> heading, section |-> section,
     break |-> break, after |-> after]

RequirementsContents ==
    {RequirementsContent(b, h, s, k, a) :
        b \in Befores, h \in Headings, s \in Sections, k \in Breaks,
        a \in Afters}

InitRequirements ==
    /\ workload = "listing"
    /\ Constructed
    /\ content \in RequirementsContents
    /\ extracted = NotExtracted
    /\ FirstRender

\* transformPostToGame hands content.rendered to extractSystemRequirements.
ExtractRequirements ==
    /\ extracted.by = "none"
    /\ extracted' = [by |-> "extractSystemRequirements",
                     value |-> ExtractSystemRequirements(content.html)]
    /\ UNCHANGED <<content, workload, now, cache, cacheTimestamps, config,
                   calls, nstart, nticks, last, stored, notFound>>
    /\ UNCHANGED <<isLoading, error, pending, nloads>>

NextRequirements == ExtractRequirements

SpecRequirements == InitRequirements /\ [][NextRequirements]_vars

\* ----------------------------------------------- specification of the gallery

MaxImages == 3

\* The urls of the images: two pictures and an avatar.
ImageUrls ==
    {"https://x.vip/up/a.webp", "https://x.vip/up/b.webp",
     "https://x.vip/avatar/u.png"}

\* An <img> element as the unit tests write it and as WordPress renders it.
ImageForms == {"plain", "rendered"}

ImageHtml(image) ==
    IF image.form = "plain" THEN "<p><img src=\"" \o image.url \o "\" /></p>"
    ELSE "<p><img loading=\"lazy\" decoding=\"async\" class=\"size-full\" src='"
            \o image.url \o "' alt=\"\" width=\"496\" height=\"700\" /></p>"

RECURSIVE ImagesHtml(_)
ImagesHtml(images) ==
    IF images = <<>> THEN "<p>Oyun</p>"
    ELSE ImageHtml(Head(images)) \o ImagesHtml(Tail(images))

GalleryContent(images) == [html |-> ImagesHtml(images), images |-> images]

GalleryContents ==
    {GalleryContent(images) :
        images \in UNION {[1..n -> [url : ImageUrls, form : ImageForms]] :
                            n \in 0..MaxImages}}

InitGallery ==
    /\ workload = "listing"
    /\ Constructed
    /\ content \in GalleryContents
    /\ extracted = NotExtracted
    /\ FirstRender

\* transformPostToGame hands content.rendered to extractMediaGallery.
ExtractGallery ==
    /\ extracted.by = "none"
    /\ extracted' = [by |-> "extractMediaGallery",
                     value |-> ExtractMediaGallery(content.html)]
    /\ UNCHANGED <<content, workload, now, cache, cacheTimestamps, config,
                   calls, nstart, nticks, last, stored, notFound>>
    /\ UNCHANGED <<isLoading, error, pending, nloads>>

NextGallery == ExtractGallery

SpecGallery == InitGallery /\ [][NextGallery]_vars

\* ------------------------------------------ specification of the sanitizing

\* The rendered texts of a raw post: plain text, tags, entities, entities
\* that encode angle brackets, an entity that encodes an entity.
Titles ==
    {"Oyun", "Oyun &amp; DLC", "<b>Oyun</b>", "Game &lt;Deluxe&gt; Edition",
     "a &lt; b", "Oyun &amp;amp; DLC"}

Rendereds ==
    {"<p>Test <b>bold</b></p>", "<p>satir<br />iki</p><p>uc&nbsp;dort</p>",
     "<p>&lt;script&gt;alert(1)&lt;/script&gt;</p>",
     "<p><a href=\"https://x.vip/f\">Indir</a> &amp; oyna</p>",
     "<p>a &lt; b, c &gt; d</p>", ""}

Excerpts ==
    {"<p>Oyun</p>", "<p>Oyun [&hellip;]</p>", "<p>&lt;3</p>",
     "<p>&lt;b&gt;kalin&lt;/b&gt;</p>"}

RawPosts ==
    {[title |-> t, html |-> c, excerpt |-> e] :
        t \in Titles, c \in Rendereds, e \in Excerpts}

InitSanitize ==
    /\ workload = "listing"
    /\ Constructed
    /\ content \in RawPosts
    /\ extracted = NotExtracted
    /\ FirstRender

\* transformPostToGame: title, description and excerpt of the Game.
Sanitize ==
    /\ extracted.by = "none"
    /\ extracted' = [by |-> "sanitizeHtml",
                     title |-> SanitizeHtml(content.title),
                     description |-> SanitizeHtml(content.html),
                     excerpt |-> SanitizeHtml(content.excerpt)]
    /\ UNCHANGED <<content, workload, now, cache, cacheTimestamps, config,
                   calls, nstart, nticks, last, stored, notFound>>
    /\ UNCHANGED <<isLoading, error, pending, nloads>>

NextSanitize == Sanitize

SpecSanitize == InitSanitize /\ [][NextSanitize]_vars

\* -------------------------------------- specification of the embedded data

\* The author arrays of a response: none, empty, an author, an author of a
\* site that has avatars switched off.
EmbeddedAuthor(avatar_urls) ==
    [id |-> 7, name |-> "Baran", slug |-> "baran",
     link |-> "https://www.oyunindir.vip/author/baran",
     avatar_urls |-> avatar_urls]

AuthorArrays ==
    {Missing, Some(<<>>),
     Some(<<EmbeddedAuthor(Some([size24 |-> "a24", size48 |-> "a48",
                                 size96 |-> "a96"]))>>),
     Some(<<EmbeddedAuthor(Missing)>>)}

\* The wp:featuredmedia arrays: none, empty, a medium with and without a
\* thumbnail size, a medium without source_url.
MediaArrays ==
    {Missing, Some(<<>>),
     Some(<<[source_url |-> Some("cover.jpg"), thumbnail |-> Some("t.jpg")]>>),
     Some(<<[source_url |-> Some("cover.jpg"), thumbnail |-> Missing]>>),
     Some(<<[source_url |-> Missing, thumbnail |-> Missing]>>)}

Term(id, name) ==
    [id |-> id, name |-> name, slug |-> name,
     link |-> "https://www.oyunindir.vip/" \o name, taxonomy |-> "x"]

\* The wp:term arrays: none, empty, categories only, categories and tags,
\* no categories and a tag.
TermArrays ==
    {Missing, Some(<<>>), Some(<<(<<Term(12, "pc")>>)>>),
     Some(<<(<<Term(12, "pc"), Term(13, "aksiyon")>>), (<<Term(40, "fps")>>)>>),
     Some(<<(<<>>), (<<Term(40, "fps")>>)>>)}

\* The posts of a response: without _embedded (a request without _embed),
\* or with one whose parts are there or not.
EmbeddedPosts ==
    {[id |-> 1, author |-> 7, content |-> c, embedded |-> Missing] :
        c \in BOOLEAN}
    \cup {[id |-> 1, author |-> 7, content |-> TRUE,
           embedded |-> Some([author |-> a, featuredmedia |-> m,
                              term |-> t])] :
            a \in AuthorArrays, m \in MediaArrays, t \in TermArrays}

InitEmbedded ==
    /\ workload = "listing"
    /\ Constructed
    /\ content \in EmbeddedPosts
    /\ extracted = NotExtracted
    /\ FirstRender

\* transformPostToGame: author, images, categories and tags of the Game.
Transform ==
    /\ extracted.by = "none"
    /\ extracted' = TransformEmbedded(content)
    /\ UNCHANGED <<content, workload, now, cache, cacheTimestamps, config,
                   calls, nstart, nticks, last, stored, notFound>>
    /\ UNCHANGED <<isLoading, error, pending, nloads>>

NextEmbedded == Transform

SpecEmbedded == InitEmbedded /\ [][NextEmbedded]_vars

\* ------------------------------------- specification of the configurations

\* new WordPressProvider(c) for each configuration of Configs; the callers
\* ask for single games and for listings.
InitConfig ==
    /\ workload \in {"single", "listing"}
    /\ \E c \in Configs : ConstructedWith(c)
    /\ content = NoContent
    /\ extracted = NotExtracted
    /\ FirstRender

SpecConfig == InitConfig /\ [][Next]_vars

\* ------------------------------------- specification of the loading state

\* The context operations that go through withLoading, by the context name
\* they pass.
LoadingContexts == {"fetchGames", "fetchGamesPaginated", "searchGames"}

\* What the views do not touch.
ProviderUnchanged ==
    UNCHANGED <<workload, now, cache, cacheTimestamps, config, calls, nstart,
                nticks, last, stored, notFound, content, extracted>>

InitLoading ==
    /\ workload = "listing"
    /\ Constructed
    /\ content = NoContent
    /\ extracted = NotExtracted
    /\ FirstRender

\* withLoading(operation, context) up to its await: setIsLoading(true),
\* setError(null), operation() called and awaited.
WithLoading(context) ==
    /\ nloads < MaxLoads
    /\ nloads' = nloads + 1
    /\ isLoading' = TRUE
    /\ error' = NoError
    /\ pending' = pending \cup {[id |-> nloads + 1, context |-> context]}
    /\ ProviderUnchanged

\* The operation of a withLoading call resolves: the result is returned
\* and the finally block runs setIsLoading(false).
OperationResolves(load) ==
    /\ load \in pending
    /\ isLoading' = FALSE
    /\ pending' = pending \ {load}
    /\ UNCHANGED <<error, nloads>>
    /\ ProviderUnchanged

\* The operation of a withLoading call rejects: setError(errorObj), the
\* error is thrown on, and the finally block runs setIsLoading(false).
OperationRejects(load) ==
    /\ load \in pending
    /\ error' = [t |-> "error", context |-> load.context]
    /\ isLoading' = FALSE
    /\ pending' = pending \ {load}
    /\ UNCHANGED nloads
    /\ ProviderUnchanged

\* clearError
ClearError ==
    /\ error # NoError
    /\ error' = NoError
    /\ UNCHANGED <<isLoading, pending, nloads>>
    /\ ProviderUnchanged

Loads ==
    {[id |-> id, context |-> context] :
        id \in 1..MaxLoads, context \in LoadingContexts}

NextLoading ==
    \/ \E context \in LoadingContexts : WithLoading(context)
    \/ \E load \in Loads : OperationResolves(load)
    \/ \E load \in Loads : OperationRejects(load)
    \/ ClearError

SpecLoading == InitLoading /\ [][NextLoading]_vars

\* ------------------------------------------------------------------ claims

InFlight == {n \in 1..MaxOps : calls[n].pc # "idle"}

\* A call has settled, and `last` describes it.
HasSettled == last.outcome.kind # "none"

\* C1: a getGames call made while an entry stored for its arguments is
\* still within the TTL, with no clearCache / clearCacheKey / updateConfig
\* since it was stored, issues no network request and returns the stored
\* value, which is the result returned by the call that stored it; such a
\* call is never suspended on the network.
C1_CacheHit ==
    /\ (HasSettled /\ last.input.op = "getGames" /\ last.fresh)
          => /\ last.reqs = 0
             /\ last.outcome = Returned(last.freshVal)
    /\ \A n \in InFlight : calls[n].input.op = "getGames" => ~calls[n].fresh

\* C1 witness: a getGames call answered from an entry holding games.
C1_Witness ==
    /\ HasSettled /\ last.input.op = "getGames" /\ last.fresh
    /\ last.reqs = 0
    /\ last.outcome.val = Array(<<[id |-> 2, title |-> "b"],
                                  [id |-> 1, title |-> "a"]>>)

\* C2: a lookup hits exactly while now - createdAt <= cacheExpiry: a call
\* that looks the cache up issues no request when an entry stored for its key
\* is within the TTL and exactly one request otherwise (the entry is older
\* than the TTL, or clearCache / clearCacheKey / updateConfig removed it, or
\* none was stored); every entry the cache holds is the value of the latest
\* successful fetch for its key with the time that fetch completed, in both
\* maps.
C2_ExpiryAndInvalidation ==
    /\ (HasSettled /\ last.lookups = 1)
          => /\ last.fresh <=> last.reqs = 0
             /\ ~last.fresh <=> last.reqs = 1
    /\ \A n \in InFlight : ~calls[n].fresh /\ calls[n].reqs = 1
    /\ DOMAIN cache = DOMAIN cacheTimestamps
    /\ \A k \in DOMAIN cacheTimestamps :
          /\ cache[k] = stored[k].val
          /\ cacheTimestamps[k] = stored[k].at

\* C2 witness: a call found an entry older than the TTL, fetched once, and
\* replaced the entry with a different value and the current time.
C2_Witness ==
    /\ HasSettled /\ ~last.fresh /\ last.freshVal.t # "undefined"
    /\ last.reqs = 1 /\ last.wrote
    /\ last.key \in DOMAIN cache
    /\ cache[last.key] = last.inner.val
    /\ cache[last.key] # last.freshVal
    /\ cacheTimestamps[last.key] = now
    /\ now > cacheExpiry + 1

FiveOps == {"getGames", "getGameById", "searchGames", "getCategories",
            "getGamesByCategory"}

\* The settled call's response was not ok.
LastNotOk == HasSettled /\ last.status # 0 /\ ~Ok(last.status)

\* The settled call's fetch rejected.
LastRejected == HasSettled /\ last.reqs = 1 /\ last.status = 0

\* C3: among the provider's query operations, a response that is not ok is
\* turned into a value only by getGameById on 404, which returns null; every
\* other not-ok response of every operation raises.
C3_NotFoundMapping ==
    (LastNotOk /\ ~last.input.svc
     /\ last.input.op \in FiveOps \cup {"getGamesPaginated"})
        => IF last.input.op = "getGameById" /\ last.status = 404
           THEN last.outcome = Returned(Null)
           ELSE last.outcome.kind = "error"

\* C3 witness: the provider's getGameById settled on a 404.
C3_Witness ==
    /\ LastNotOk /\ ~last.input.svc /\ last.input.op = "getGameById"
    /\ last.status = 404 /\ last.outcome = Returned(Null)

\* The provider prefix occurs exactly once in a message.
PrefixedOnce(msg) ==
    Cardinality({i \in 1..Len(msg) : msg[i] = "[WordPress Provider]"}) = 1

\* C4 (the claim as stated; the code violates it): when the fetch of one of
\* the five provider operations rejects or its response is not ok (404 of
\* getGameById apart), the call raises an error whose message is the
\* provider prefix and one context around the transport message, the prefix
\* applied once.
C4_WrappedOnce ==
    ((LastRejected \/ LastNotOk) /\ ~last.input.svc
     /\ last.input.op \in FiveOps
     /\ ~(last.input.op = "getGameById" /\ last.status = 404))
        => /\ last.outcome.kind = "error"
           /\ Len(last.outcome.msg) = 3
           /\ last.outcome.msg[1] = "[WordPress Provider]"
           /\ last.outcome.msg[3] =
                 (IF last.status = 0 THEN NetworkMessage[1]
                  ELSE HttpMessage(last.status)[1])
           /\ PrefixedOnce(last.outcome.msg)

\* C4 witness: a rejected fetch, whose error is wrapped once.
C4_Witness ==
    /\ LastRejected /\ last.input.op = "getGames"
    /\ last.outcome.msg = <<"[WordPress Provider]", "Error fetching games",
                            "fetch failed">>

\* A query is empty or holds only whitespace.
Blank(q) == \A i \in 1..Len(q) : q[i] = " "

\* C5: searchGames with an empty or whitespace-only query returns the empty
\* list, issues no request, looks nothing up and leaves the cache as it was;
\* such a call is never suspended on the network.
C5_EmptySearch ==
    /\ (HasSettled /\ last.input.op = "searchGames" /\ Blank(last.input.query))
          => /\ last.outcome = Returned(Array(<<>>))
             /\ last.reqs = 0
             /\ last.lookups = 0
             /\ ~last.wrote
    /\ \A n \in InFlight :
          ~(calls[n].input.op = "searchGames" /\ Blank(calls[n].input.query))

\* C5 witness: a whitespace-only search settled while the cache held an
\* entry.
C5_Witness ==
    /\ HasSettled /\ last.input.op = "searchGames"
    /\ last.input.query = <<" ">>
    /\ last.outcome = Returned(Array(<<>>))
    /\ DOMAIN cache # {}

\* C6: every call suspended on the network has issued a request of its own,
\* also when another call for the same key is suspended; and whenever a call
\* settles having fetched its value, the cache slot of its key holds that
\* value and the time of this step, whichever call started first.
C6_UncoordinatedMisses ==
    [][/\ \A n \in 1..MaxOps :
             calls'[n].pc # "idle" => calls'[n].reqs = 1
       /\ \A n \in 1..MaxOps :
             (calls[n].pc = "fetch" /\ calls'[n].pc = "idle"
              /\ last'.inner.kind = "value" /\ last'.status = 200)
                => /\ last'.key \in DOMAIN cache'
                   /\ cache'[last'.key] = last'.inner.val
                   /\ cacheTimestamps'[last'.key] = now']_vars

\* C6 witness: two calls for one key were suspended together; the one that
\* started later completed first and stored its value; the one that started
\* first completed last with a different value, which the slot now holds.
C6_Witness ==
    /\ HasSettled /\ last.rival.t # "undefined"
    /\ last.wrote /\ last.reqs = 1
    /\ last.inner.val # last.rival
    /\ cache[last.key] = last.inner.val
    /\ cacheTimestamps[last.key] = now

\* C7: no invocation issues more than one network request, and an
\* invocation whose fetch failed settles with exactly the one request it
\* made, whatever maxRetries is.
C7_NoRetry ==
    /\ \A n \in 1..MaxOps : calls[n].reqs <= 1
    /\ last.reqs <= 1
    /\ (HasSettled /\ last.inner.kind = "error") => last.reqs = 1

\* C7 witness: a fetch was rejected and the call settled after one request
\* although maxRetries is positive.
C7_Witness ==
    /\ LastRejected /\ last.inner.kind = "error" /\ last.reqs = 1
    /\ maxRetries > 0

\* C8 (the claim as stated; the code violates it): every healthCheck call
\* issues its one-item fetch, never raises, and returns true exactly when
\* that fetch completed without a transport error.
C8_HealthCheckFetches ==
    (HasSettled /\ last.input.op = "healthCheck")
        => /\ last.reqs = 1
           /\ last.outcome.kind = "value"
           /\ last.outcome = Returned(Bool(TRUE))
                 <=> (last.status = 200 /\ last.inner.kind = "value")

\* C8 witness: a healthCheck whose fetch failed returned false.
C8_Witness ==
    /\ HasSettled /\ last.input.op = "healthCheck" /\ LastRejected
    /\ last.outcome = Returned(Bool(FALSE))

\* C9 (the claim as stated; the code violates it): once getGameById has
\* answered not-found for an id, a getGameById for that id made within the
\* TTL, with no invalidation in between, issues no network request.
C9_NotFoundCached ==
    /\ (HasSettled /\ last.input.op = "getGameById" /\ last.nf)
          => last.reqs = 0
    /\ \A n \in InFlight : calls[n].input.op = "getGameById" => ~calls[n].nf

\* C9 as amended: the null of a 404 is not stored (the cache never holds a
\* null, and the call that returns it leaves the cache as it was), and a
\* getGameById made within the TTL of a not-found answer issues a new
\* request, unless a Game stored for that id is within its TTL.
C9_NotFoundNotCached ==
    /\ \A k \in DOMAIN cache : cache[k].t # "null"
    /\ (HasSettled /\ last.input.op = "getGameById" /\ last.status = 404)
          => ~last.wrote
    /\ (HasSettled /\ last.input.op = "getGameById" /\ last.nf /\ ~last.fresh)
          => last.reqs = 1
    /\ \A n \in InFlight :
          (calls[n].input.op = "getGameById" /\ calls[n].nf)
             => calls[n].reqs = 1

\* C9 witness: a second getGameById within the TTL of a not-found answer
\* fetched again and got 404 again.
C9_Witness ==
    /\ HasSettled /\ last.input.op = "getGameById" /\ ~last.input.svc
    /\ last.nf /\ last.reqs = 1 /\ last.status = 404
    /\ last.outcome = Returned(Null)
    /\ cache = <<>>

\* C10 (the claim as stated; the code violates it): ProviderService's
\* getGameById returns null, and does not raise, on an upstream 404.
C10_ServiceReturnsNull ==
    (HasSettled /\ last.input.svc /\ last.input.op = "getGameById"
     /\ last.status = 404)
        => last.outcome = Returned(Null)

\* C10 as amended: ProviderService's getGameById never returns null; on an
\* upstream 404 it raises "[ProviderService] Failed to fetch game with id
\* <id>: Game with id <id> not found", and when it returns, it returns a
\* Game.
C10_ServiceRaisesNotFound ==
    (HasSettled /\ last.input.svc /\ last.input.op = "getGameById")
        => /\ last.status = 404
              => last.outcome =
                    Raised(<<"[ProviderService]",
                             "Failed to fetch game with id "
                                 \o ToString(last.input.id),
                             "Game with id " \o ToString(last.input.id)
                                 \o " not found">>)
           /\ last.outcome.kind = "value" => last.outcome.val.t = "object"

\* C10 witness: a not-found raised by the service while the provider
\* returned null.
C10_Witness ==
    /\ HasSettled /\ last.input.svc /\ last.input.op = "getGameById"
    /\ last.status = 404
    /\ last.inner = Returned(Null)
    /\ last.outcome.kind = "error"

\* A getGamesPaginated call has returned.
Paged ==
    /\ HasSettled /\ last.input.op = "getGamesPaginated"
    /\ last.outcome.kind = "value"

\* The metadata of the page a getGamesPaginated call returned: data is what
\* getGames returned, page and limit are echoed, total = |data|, totalPages
\* is the least number of limit-sized pages that hold |data| items,
\* hasPreviousPage <=> page > 1, hasNextPage <=> |data| = limit.
PageDerived ==
    LET r == last.outcome.val
        n == Len(last.inner.val.items)
    IN  /\ last.inner.kind = "value"
        /\ r.items = last.inner.val.items
        /\ r.page = last.input.page
        /\ r.limit = last.input.limit
        /\ r.total = n
        /\ r.totalPages * r.limit >= n
        /\ (r.totalPages - 1) * r.limit < n
        /\ r.hasPreviousPage <=> last.input.page > 1
        /\ r.hasNextPage <=> n = last.input.limit
        /\ r.total >= Len(r.items)

\* C11 (the claim as stated; refuted by an empty page): the page returned by
\* getGamesPaginated carries the derived metadata, and totalPages > 0.
C11_PaginationMetadata ==
    Paged => /\ PageDerived
             /\ last.outcome.val.totalPages > 0

\* C11 as amended: the page returned by getGamesPaginated carries the
\* derived metadata; total >= |data| always, and totalPages > 0 exactly when
\* the page is not empty (an empty page has totalPages = 0).
C11_PaginationDerived ==
    Paged => /\ PageDerived
             /\ last.outcome.val.totalPages > 0
                   <=> Len(last.outcome.val.items) > 0

\* C11 witness: page 2 with limit 2 came back full: one page, a next page
\* and a previous page.
C11_Witness ==
    /\ Paged /\ last.input.page = 2 /\ last.input.limit = 2
    /\ Len(last.outcome.val.items) = 2
    /\ last.outcome.val.totalPages = 1
    /\ last.outcome.val.hasNextPage /\ last.outcome.val.hasPreviousPage

ListingOps == {"getGames", "searchGames", "getGamesByCategory"}

\* A list holds one entry per post of some response body all of whose posts
\* can be transformed, in the body's order.
FullPage(items) ==
    \E body \in AllBodies :
        /\ Len(items) = Len(body)
        /\ \A i \in 1..Len(body) :
              body[i].content /\ items[i].id = body[i].id

\* C12: a listing call that fetched either raises or returns one Game per
\* post of the response body, in the body's order; it changes the cache only
\* when it returns; a call one of whose posts could not be transformed
\* raises and leaves the cache as it was; and every list the cache holds is
\* a full page.
C12_AllOrNothingPage ==
    /\ (HasSettled /\ last.input.op \in ListingOps /\ last.reqs = 1)
        => /\ last.outcome.kind = "value"
                => /\ Len(last.outcome.val.items) = Len(last.body)
                   /\ \A i \in 1..Len(last.body) :
                         /\ last.outcome.val.items[i].id = last.body[i].id
                         /\ last.body[i].content
           /\ last.wrote => last.outcome.kind = "value"
           /\ (\E i \in 1..Len(last.body) : ~last.body[i].content)
                => /\ last.outcome.kind = "error"
                   /\ ~last.wrote
    /\ \A k \in DOMAIN cache :
          cache[k].t = "array" => FullPage(cache[k].items)

\* C12 witness: a listing call whose second post could not be transformed
\* raised and stored nothing, the first post's Game included.
C12_Witness ==
    /\ HasSettled /\ last.input.op \in ListingOps /\ last.reqs = 1
    /\ Len(last.body) = 2
    /\ last.body[1].content /\ ~last.body[2].content
    /\ last.outcome.kind = "error"
    /\ ~last.wrote

\* extractDownloadLinks has run on the document.
LinksExtracted == extracted.by = "extractDownloadLinks"

\* The kind the priority order gives a label and a url.
KindByPriority(label, url) ==
    CASE LowerIncludes(label, "torrent") -> "torrent"
      [] ~LowerIncludes(label, "torrent") /\ Includes(url, "turbobit") ->
            "turbobit"
      [] ~LowerIncludes(label, "torrent") /\ ~Includes(url, "turbobit")
            /\ LowerIncludes(label, "alternatif") -> DirectType(label)
      [] OTHER ->
            IF Includes(url, "pixeldrain") THEN "pixeldrain"
            ELSE IF Includes(url, "mediafire") THEN "mediafire"
            ELSE IF Includes(url, "drive.google.com") THEN "googledrive"
            ELSE IF LowerIncludes(url, "torrent") THEN "torrent"
            ELSE "direct"

LinkKinds ==
    {"direct", "direct1", "direct2", "direct3", "torrent", "mediafire",
     "googledrive", "pixeldrain", "turbobit", "other"}

\* C14 (the claim as stated; the code violates it): every link
\* extractDownloadLinks emits has a kind of the closed set.
C14_ClosedKindSet ==
    LinksExtracted =>
        \A i \in 1..Len(extracted.value) :
            extracted.value[i].type \in LinkKinds

\* C14 witness: a numbered Alternatif link whose kind is of the set.
C14_Witness ==
    /\ LinksExtracted
    /\ \E i \in 1..Len(extracted.value) :
          /\ extracted.value[i].type = "direct1"
          /\ extracted.value[i].type \in LinkKinds

\* The label the derivation gives an inner content: entities decoded, then
\* tags removed, then trimmed.
Derived(inner) == StrTrim(StripTags(DecodeLabelEntities(inner)))

\* The labels derived from the anchors of the document, in order, the empty
\* ones left out.
DerivedLabels ==
    SelectSeq([j \in 1..Len(content.anchors) |->
                 Derived(content.anchors[j].inner)],
              LAMBDA l : l # "")

\* The label of every emitted link is derived from its anchor; an anchor
\* whose derived label is empty is not emitted; no emitted link has an empty
\* label or an empty url.
LabelsDerived ==
    /\ Len(extracted.value) = Len(DerivedLabels)
    /\ \A i \in 1..Len(extracted.value) :
          /\ extracted.value[i].label = DerivedLabels[i]
          /\ extracted.value[i].label # ""
          /\ extracted.value[i].url # ""
    /\ (Len(content.anchors) = 1
          /\ content.anchors[1].inner
                = "<strong>&lt;&lt;&lt; Alternatif: Link1 &gt;&gt;&gt;</strong>")
        => /\ Len(extracted.value) = 1
           /\ extracted.value[1].label = "<<< Alternatif: Link1 >>>"

\* The places of s where sub occurs.
Occurrences(s, sub) ==
    {i \in 1..Len(s) : i + Len(sub) - 1 <= Len(s)
                        /\ SubSeq(s, i, i + Len(sub) - 1) = sub}

\* C15 (the claim as stated; refuted by entities that spell a tag): labels
\* are derived, and every entity-encoded angle bracket of the inner content
\* survives as text in the label.
C15_EntityBracketsSurvive ==
    LinksExtracted =>
        /\ LabelsDerived
        /\ (Len(content.anchors) = 1 /\ Len(extracted.value) = 1)
              => /\ Cardinality(Occurrences(extracted.value[1].label, "<"))
                      >= Cardinality(Occurrences(content.anchors[1].inner,
                                                 "&lt;"))
                 /\ Cardinality(Occurrences(extracted.value[1].label, ">"))
                      >= Cardinality(Occurrences(content.anchors[1].inner,
                                                 "&gt;"))

\* C15 as amended: labels are derived (entities decoded first, tags removed
\* second from the decoded text, then trimmed), anchors with an empty label
\* are not emitted; entity-encoded angle brackets survive as text where the
\* decoded text spells no tag (<<< ... >>>, <>), and are removed with what
\* they enclose where it does (&lt;b&gt;).
C15_LabelDerivation ==
    LinksExtracted =>
        /\ LabelsDerived
        /\ (Len(content.anchors) = 1 /\ Len(extracted.value) = 1)
              => /\ content.anchors[1].inner = "&lt;b&gt;Indir&lt;/b&gt;"
                      => extracted.value[1].label = "Indir"
                 /\ content.anchors[1].inner
                          = "Test &#8211; Special &amp; Chars &lt;&gt;"
                      => extracted.value[1].label
                            = "Test - Special & Chars <>"

\* C15 witness: the label of the anchor with entity-encoded <<< and >>> in
\* a <strong> element.
C15_Witness ==
    /\ LinksExtracted
    /\ Len(content.anchors) = 1
    /\ content.anchors[1].inner
          = "<strong>&lt;&lt;&lt; Alternatif: Link1 &gt;&gt;&gt;</strong>"
    /\ Len(extracted.value) = 1
    /\ extracted.value[1].label = "<<< Alternatif: Link1 >>>"

\* C16 (the claim as stated; the code violates it): a link is emitted with
\* available = false exactly when its anchor is wrapped by <del>...</del>.
C16_DelWrapping ==
    (LinksExtracted /\ Len(extracted.value) = Len(content.anchors))
        => \A i \in 1..Len(content.anchors) :
              extracted.value[i].available = ~content.anchors[i].wrapped

\* C16 witness: a long anchor wrapped by <del> is unavailable and its
\* unwrapped sibling is available.
C16_Witness ==
    /\ LinksExtracted
    /\ Len(content.anchors) = 2 /\ Len(extracted.value) = 2
    /\ content.anchors[1].wrapped /\ ~content.anchors[2].wrapped
    /\ ~extracted.value[1].available
    /\ extracted.value[2].available

RequirementsExtracted == extracted.by = "extractSystemRequirements"

\* The fields of the record the section of the document gives before null is
\* decided.
FieldsOfSection ==
    RequirementsOf(RequirementsPlainText(
        SectionOf(content.html,
                  Exec(content.html, TRUE, RequirementsSectionPattern, 1))))

\* value is null when the heading does not match or all the fields of the
\* section are empty, and holds the fields of the section otherwise.
PresenceOf(value, matches, fields) ==
    /\ ~matches => value = NoRequirements
    /\ (matches /\ \A f \in Fields : fields[f] = "") => value = NoRequirements
    /\ ~value.isNull
          => /\ matches
             /\ \E f \in Fields : value[f] # ""
             /\ \A f \in Fields : value[f] = fields[f]

\* C17: extractSystemRequirements returns null when no heading matching
\* 'Sistem ... Gereksinimi' occurs in the document, whatever values the text
\* holds, and when a heading is found but all six fields come out empty; a
\* record it returns has at least one non-empty field.
C17_RequirementsPresence ==
    RequirementsExtracted
        => PresenceOf(extracted.value, content.heading.matches, FieldsOfSection)

\* C17 witness: a document with values but without a matching heading gave
\* null.
C17_Witness ==
    /\ RequirementsExtracted
    /\ ~content.heading.matches
    /\ content.before = "<p>8 GB RAM</p>"
    /\ content.section
          = "<p>Windows 10/x64-bit<br />4 GB RAM<br />10 GB Storage<br />DX 11</p>"
    /\ extracted.value = NoRequirements

\* The document from the heading up to the break, nothing before it and
\* nothing after it.
UpToTheBreak == content.heading.html \o content.section \o content.break

\* C18 (the claim as stated; the code violates it): the requirements of a
\* document whose section ends with an <hr> are those of every document that
\* is the same from the heading to that <hr>, whatever stands before and
\* after; nothing after the <hr> is reflected.
C18_SectionBoundary ==
    (RequirementsExtracted /\ content.break # "")
        => extracted.value = ExtractSystemRequirements(UpToTheBreak)

\* C18 witness: the section of the unit test followed by <hr /> and by text
\* with other values; the record holds the values of the section.
C18_Witness ==
    /\ RequirementsExtracted
    /\ content.heading.matches
    /\ content.break = "<hr />"
    /\ content.after = "<p>16 GB RAM &#8211; DirectX 12</p>"
    /\ ~extracted.value.isNull
    /\ extracted.value.ram = "4 GB"
    /\ extracted.value.directX = "DirectX 11"

GalleryExtracted == extracted.by = "extractMediaGallery"

\* The places of the document's images that hold the first occurrence of a
\* url without 'avatar'.
FirstOccurrences ==
    {i \in 1..Len(content.images) :
        /\ ~Includes(content.images[i].url, "avatar")
        /\ \A j \in 1..(i - 1) : content.images[j].url # content.images[i].url}

\* C19: extractMediaGallery returns exactly the distinct <img src> urls of the
\* document that do not contain 'avatar', each once, in the order of their
\* first occurrence.
C19_MediaGallery ==
    GalleryExtracted =>
        /\ Len(extracted.value) = Cardinality(FirstOccurrences)
        /\ \A k \in 1..Len(extracted.value) :
              extracted.value[k]
                 = content.images[NthOf(FirstOccurrences, k)].url
        /\ \A k \in 1..Len(extracted.value) :
              /\ ~Includes(extracted.value[k], "avatar")
              /\ \A l \in 1..Len(extracted.value) :
                    extracted.value[k] = extracted.value[l] => k = l

\* C19 witness: the same url three times gives it once; b before a with an
\* avatar between them gives b, a.
C19_Witness ==
    /\ GalleryExtracted
    /\ Len(content.images) = 3
    /\ \/ /\ \A i \in 1..3 : content.images[i].url = "https://x.vip/up/a.webp"
          /\ extracted.value = <<"https://x.vip/up/a.webp">>
       \/ /\ content.images[1].url = "https://x.vip/up/b.webp"
          /\ content.images[2].url = "https://x.vip/avatar/u.png"
          /\ content.images[3].url = "https://x.vip/up/a.webp"
          /\ extracted.value
                = <<"https://x.vip/up/b.webp", "https://x.vip/up/a.webp">>

Sanitized == extracted.by = "sanitizeHtml"

\* /<[^>]+>/.test(s)
HasMarkup(s) == Exec(s, FALSE, AnyTagPattern, 1).ok

\* C20 (the claim as stated; the code violates it): the title, the
\* description and the excerpt of the Game contain no '<...>'.
C20_PlainText ==
    Sanitized =>
        /\ ~HasMarkup(extracted.title)
        /\ ~HasMarkup(extracted.description)
        /\ ~HasMarkup(extracted.excerpt)

\* C20 witness: a post whose texts carry tags and the entity of &; the three
\* texts of the Game are plain.
C20_Witness ==
    /\ Sanitized
    /\ content.title = "<b>Oyun</b>" /\ extracted.title = "Oyun"
    /\ content.html = "<p>Test <b>bold</b></p>"
    /\ extracted.description = "Test bold"
    /\ content.excerpt = "<p>Oyun</p>" /\ extracted.excerpt = "Oyun"

\* The embedded data a post came with.
NoAuthor(post) == ~ElementOf(Embedded(post, "author"), 1).has
NoMedia(post) == ~ElementOf(Embedded(post, "featuredmedia"), 1).has
NoTerms(post) ==
    \A i \in {1, 2} :
        ElementOf(Embedded(post, "term"), i).has
            => ElementOf(Embedded(post, "term"), i).v = <<>>

Transformed == extracted.by = "transformPostToGame"

\* C21: for a post without embedded data (no _embedded, or empty author /
\* wp:featuredmedia / wp:term arrays) transformPostToGame does not raise on
\* account of it -- it raises only when the post has no content.rendered --
\* and the Game has the made-up author {id = post.author, 'Unknown',
\* 'unknown', '', three empty avatar URLs} where no author is embedded,
\* empty coverImage and thumbnail where no medium is embedded, and empty
\* categories and tags where no terms are embedded.
C21_Degradation ==
    Transformed =>
        /\ (NoAuthor(content) => extracted.threw = ~content.content)
        /\ ~extracted.threw =>
            /\ NoAuthor(content) =>
                 extracted.author =
                     [id |-> content.author, name |-> "Unknown",
                      slug |-> "unknown", link |-> "",
                      avatarUrls |-> [size24 |-> "", size48 |-> "",
                                      size96 |-> ""]]
            /\ NoMedia(content) =>
                 extracted.coverImage = "" /\ extracted.thumbnail = ""
            /\ NoTerms(content) =>
                 extracted.categories = <<>> /\ extracted.tags = <<>>

\* A post without _embedded has been transformed into a Game with the
\* made-up author.
C21_Witness ==
    /\ Transformed
    /\ ~content.embedded.has
    /\ ~extracted.threw
    /\ extracted.author.name = "Unknown"
    /\ extracted.categories = <<>>

\* C22 (the claim as stated; the code violates it): a configuration with an
\* invalid base URL or a malformed header value is rejected when it is
\* built, so no query operation issues a network request under a
\* configuration that validateProviderConfig does not accept.
C22_NoRequestUnderInvalidConfig ==
    /\ \A n \in 1..MaxOps :
          (calls[n].pc = "fetch" /\ calls[n].reqs > 0)
              => ValidateProviderConfig(config)
    /\ (HasSettled /\ last.reqs > 0) => ValidateProviderConfig(config)

\* C22 witness: a provider was constructed with a header value that is not
\* a string, getGameById was called on it, and its request is on the
\* network.
C22_Witness ==
    /\ "headers" \in DOMAIN config
    /\ ~ValidateProviderConfig(config)
    /\ \E n \in 1..MaxOps :
          /\ calls[n].pc = "fetch"
          /\ calls[n].input.op = "getGameById"
          /\ calls[n].reqs = 1

\* A text is plain when it holds no tag and none of the entities that
\* sanitizeHtml decodes.
PlainText(s) ==
    /\ ~HasMarkup(s)
    /\ \A n \in 1..Len(SanitizeEntities) : ~Includes(s, SanitizeEntities[n][1])

\* C23: sanitizeHtml is idempotent on every input whose sanitized form is
\* plain text (no tag and no entity is left in it): applied to its own
\* result it returns that result unchanged.
C23_Idempotence ==
    Sanitized =>
        /\ PlainText(extracted.title)
             => SanitizeHtml(extracted.title) = extracted.title
        /\ PlainText(extracted.description)
             => SanitizeHtml(extracted.description) = extracted.description
        /\ PlainText(extracted.excerpt)
             => SanitizeHtml(extracted.excerpt) = extracted.excerpt

\* A post with tags, line breaks and entities has been sanitized to plain
\* text that spans several lines.
C23_Witness ==
    /\ Sanitized
    /\ content.html = "<p>satir<br />iki</p><p>uc&nbsp;dort</p>"
    /\ PlainText(extracted.description)
    /\ Includes(extracted.description, "\n")
    /\ extracted.description # content.html

\* The text the field patterns of the document's section are tried on.
SectionPlainText ==
    RequirementsPlainText(
        SectionOf(content.html,
                  Exec(content.html, TRUE, RequirementsSectionPattern, 1)))

\* Those of the storage patterns at the places I that match the text with a
\* non-empty capture.
StorageMatches(text, I) ==
    {i \in I : StopsLoop("storage", text,
                         Exec(text, TRUE, storagePatterns[i], 1))}

\* The value of the first of the keyworded patterns that match, else of the
\* first of the fallbacks that match, else ''.
FirstOfEither(text, keyworded, fallbacks) ==
    IF keyworded # {}
    THEN FieldOf("storage", text, storagePatterns, keyworded)
    ELSE FieldOf("storage", text, storagePatterns, fallbacks)

\* The places of storagePatterns: a quantity before Depo, Storage, Disk or
\* Alan; the bare decimal quantity and the one after 'Oyunun Boyutu'.
KeywordedStorage == {2, 3, 4, 5}
FallbackStorage == {1, 6}

KeywordFirst(text) ==
    FirstOfEither(text, StorageMatches(text, KeywordedStorage),
                  StorageMatches(text, FallbackStorage))

\* C24 (the claim as stated; the code violates it): the storage of a record
\* is the quantity next to a storage keyword (Depo, Storage, Disk, Alan)
\* wherever the section holds one; the bare decimal quantity and the
\* quantity after 'Oyunun Boyutu' are used only when it holds none.  A
\* section with '1.5 GB' of another field and '10 GB Depo' has storage
\* '10 GB'.
C24_StorageOrder ==
    (RequirementsExtracted /\ ~extracted.value.isNull)
        => extracted.value.storage = KeywordFirst(SectionPlainText)

\* C24 witness: the section with '1.5 GB Vram' and '10 GB Depo' has been
\* read, and the storage of the record is the decimal quantity.
C24_Witness ==
    /\ RequirementsExtracted
    /\ content.heading.matches
    /\ Includes(content.section, "1.5 GB Vram")
    /\ Includes(content.section, "10 GB Depo")
    /\ StorageMatches(SectionPlainText, KeywordedStorage) # {}
    /\ extracted.value.storage = "1.5 GB"

\* The gpu patterns that stop the loop on the text, and the words of the
\* span the first of them captured.
GpuMatches(text) ==
    {i \in 1..Len(gpuPatterns) :
        StopsLoop("gpu", text, Exec(text, TRUE, gpuPatterns[i], 1))}

GpuSpanAt(text, matches) ==
    IF matches = {} THEN <<>>
    ELSE Split(StrTrim(Group(text, Exec(text, TRUE,
                                        gpuPatterns[Least(matches)], 1), 1)))

GpuSpan(text) == GpuSpanAt(text, GpuMatches(text))

Tokens(parts) == {parts[k] : k \in DOMAIN parts}

\* A span with a brand and a series gives one of its brands.
BrandPreferred(gpu, tokens) ==
    (tokens \cap brandNames # {} /\ tokens \cap seriesNames # {})
        => gpu \in tokens \cap brandNames

\* C25 (the claim as stated; the code violates it): when the matched GPU span
\* holds both a brand token (GeForce, Radeon, Arc) and a series token (GTX,
\* RTX, RX, HD, GT), the gpu of the record is the brand token, at whatever
\* places of the span the two stand.
C25_BrandPreference ==
    (RequirementsExtracted /\ ~extracted.value.isNull)
        => BrandPreferred(extracted.value.gpu, Tokens(GpuSpan(SectionPlainText)))

\* C25 witness: the span 'GeForce GTX 650', brand first and series second,
\* has been read, and the gpu of the record is the series.
C25_Witness ==
    /\ RequirementsExtracted
    /\ content.heading.matches
    /\ Includes(content.section, "<br>GeForce GTX 650 / Radeon HD 7510")
    /\ content.after = ""
    /\ GpuSpan(SectionPlainText) = <<"GeForce", "GTX", "650">>
    /\ extracted.value.gpu = "GTX"

\* A call for a page with a limit above the page size has settled with a
\* value.
Oversized ==
    /\ HasSettled
    /\ last.input.limit > postsPerPage
    /\ last.outcome.kind = "value"

\* C26: getGames asks the upstream for min(limit, page size) posts and
\* stores them under the key of the requested limit; so for every limit
\* above the page size a full page is shorter than the limit, and
\* getGamesPaginated reports hasNextPage = false on every page, however
\* many posts the upstream holds.
C26_ClampedPage ==
    /\ Oversized
        => /\ last.key = "games-" \o ToString(last.input.page) \o "-"
                            \o ToString(last.input.limit)
           /\ Len(last.outcome.val.items) <= postsPerPage
           /\ last.input.op = "getGamesPaginated"
                 => ~last.outcome.val.hasNextPage
    /\ \A in \in Workloads[workload] :
          (in.limit > postsPerPage
             /\ CacheKey(InnerInput(in)) \in DOMAIN cache)
                => Len(cache[CacheKey(InnerInput(in))].items) <= postsPerPage

\* C26 witness: page 2 was asked for with limit 31 while the upstream holds
\* 62 posts; the page came back with posts 31 to 60, was stored under
\* 'games-2-31', and reports no next page although posts 61 and 62 follow.
C26_Witness ==
    /\ Oversized
    /\ last.input.op = "getGamesPaginated"
    /\ last.input.page = 2 /\ last.input.limit = postsPerPage + 1
    /\ Len(last.outcome.val.items) = postsPerPage
    /\ last.outcome.val.items[postsPerPage].id = 2 * postsPerPage
    /\ last.wrote
    /\ "games-2-31" \in DOMAIN cache
    /\ ~last.outcome.val.hasNextPage

\* C27: the value map and the timestamp map of the cache hold the same keys
\* in every state: a store writes both, and a lookup that finds an entry
\* expired, clearCache and clearCacheKey remove from both.
C27_SameKeys == DOMAIN cache = DOMAIN cacheTimestamps

\* C27 witness: a call found the entry of its key expired and removed it;
\* the call is suspended on its fetch and neither map holds the key.
C27_Witness ==
    \E n \in 1..MaxOps :
        /\ calls[n].pc = "fetch"
        /\ calls[n].lookups = 1
        /\ stored[calls[n].key].at # 0
        /\ now - stored[calls[n].key].at > cacheExpiry
        /\ calls[n].key \notin DOMAIN cache
        /\ calls[n].key \notin DOMAIN cacheTimestamps

\* The step settles a call: one that needed no fetch, or a suspended one.
SettleStep ==
    \/ nstart' = nstart + 1 /\ calls' = calls
    \/ \E n \in 1..MaxOps : calls[n].pc # "idle" /\ calls'[n].pc = "idle"

\* The call the step settles raised: its provider operation did, or the
\* ProviderService operation around it.
Raises == last'.inner.kind = "error" \/ last'.outcome.kind = "error"

\* The entries of the keys other than key are the same before and after.
OthersUnchanged(key) ==
    /\ DOMAIN cache' \ {key} = DOMAIN cache \ {key}
    /\ DOMAIN cacheTimestamps' \ {key} = DOMAIN cacheTimestamps \ {key}
    /\ \A k \in DOMAIN cache' \ {key} : cache'[k] = cache[k]
    /\ \A k \in DOMAIN cacheTimestamps' \ {key} :
          cacheTimestamps'[k] = cacheTimestamps[k]

\* C28 (the claim as stated, which does not hold): when a query operation
\* raises, no cache entry exists for its key afterwards and the entries of
\* all other keys are unchanged.
C28_NoEntryAfterRaise ==
    [][(SettleStep /\ Raises)
          => /\ last'.key \notin DOMAIN cache'
             /\ OthersUnchanged(last'.key)]_vars

\* C28 (amended): a query operation that raises stores nothing and restores
\* nothing: the step in which it raises adds no entry and changes none, the
\* entries of all other keys are unchanged, and no entry exists for its key
\* afterwards unless another call stored one under that key while this call
\* was suspended; and a call returns without a network request only when
\* it found an entry for its key (or is a search for an empty query), so the
\* next call for a key without entry issues a new request.
C28_RaiseStoresNothing ==
    [][/\ (SettleStep /\ Raises)
            => /\ OthersUnchanged(last'.key)
               /\ last'.key \in DOMAIN cache'
                     => /\ last'.key \in DOMAIN cache
                        /\ cache'[last'.key] = cache[last'.key]
                        /\ cacheTimestamps'[last'.key]
                              = cacheTimestamps[last'.key]
               /\ ~last'.since => last'.key \notin DOMAIN cache'
       /\ (nstart' = nstart + 1 /\ calls' = calls /\ last'.lookups = 1)
            => /\ last'.reqs = 0
               /\ last'.key \in DOMAIN cache
       /\ (nstart' = nstart + 1 /\ calls' # calls)
            => calls'[nstart'].reqs = 1]_vars

\* C28 witness: a call found the entry of its key expired, issued a request
\* and raised; no entry exists for its key, the stale one was not kept.
C28_Witness ==
    /\ HasSettled
    /\ last.inner.kind = "error"
    /\ last.reqs = 1
    /\ ~last.since
    /\ stored[last.key].at # 0
    /\ now - stored[last.key].at > cacheExpiry
    /\ last.key \notin DOMAIN cache

\* C29 (the claim as stated; the code violates it): once clearCache() or
\* updateConfig() has returned, the cache holds no value that came from a
\* network request issued before that invalidation, the requests that were
\* in flight at that moment included.
C29_NoStoreAcrossInvalidation ==
    \A k \in DOMAIN cache : ~stored[k].cleared

\* C29 witness: a call was suspended on its fetch when updateConfig() ran;
\* it completed afterwards, and the cache holds the value it fetched.
C29_Witness ==
    /\ HasSettled
    /\ last.cleared /\ last.wrote
    /\ "apiKey" \in DOMAIN config
    /\ last.key \in DOMAIN cache
    /\ cache[last.key] = last.inner.val

\* C30 (the claim as stated; the code violates it): isLoading is true
\* whenever an operation started through withLoading has not settled yet,
\* also when several overlap; it is false only when none is outstanding.
C30_LoadingWhileOutstanding == pending # {} => isLoading

\* C30 witness: two operations were started through withLoading and
\* overlapped; one has settled, the other is outstanding, and isLoading is
\* false.
C30_Witness ==
    /\ nloads = 2
    /\ Cardinality(pending) = 1
    /\ \E load \in pending : load.id = 1
    /\ ~isLoading

====
